---- MODULE Spec2Model ----
(***************************************************************************)
(* Verification model of the batch orchestration engine of the Banana      *)
(* WebUI (src/webui.py): the staged orchestrator                           *)
(* process_flexible_combinations_async with its two worker pools, the      *)
(* retry loop of call_banana_api_multi, the memoised upload                *)
(* upload_single_image, the cancellation-flag map and the entry points     *)
(* that register and clear its entries.                                    *)
(*                                                                         *)
(* Ten specifications share the module:                                    *)
(*   Spec         one task group run by                                    *)
(*                process_flexible_combinations_async interleaved with     *)
(*                request_cancel_all_tasks                                 *)
(*   SpecRegistry the same run next to clear_all_outputs                   *)
(*   SpecRetry    one execution of call_banana_api_multi                   *)
(*   SpecUpload   concurrent executions of upload_single_image             *)
(*   SpecFlags    the entry points and the life cycle of the flag map      *)
(*   SpecSubmit   a form submitted to batch_generate_flexible, its plan,   *)
(*                its statistics and its run when every call succeeds      *)
(*   SpecLocks    the threads walking through their lock blocks and        *)
(*                network calls                                            *)
(*   SpecLive     SpecRegistry with its threads scheduled fairly           *)
(*   SpecPlan     the planning functions applied by the task estimate and  *)
(*                get_api_key_for_task applied to an ordinal and a list    *)
(*   SpecRounds   the rounds of main in src/batch_banana_concurrent_v2.py  *)
(***************************************************************************)
EXTENDS Integers, Sequences, FiniteSets, TLC

\* ------------------------------------------------------------------ bounds
MaxCombos == 2
MaxPrompts == 2
MaxStages == 2
MaxTasks == 3
MaxWorkers == 2
MaxRetries == 2
MaxCancels == 1
MaxRetryInput == 4
MaxUploads == 2
MaxClears == 1

\* --------------------------------------------------------------- variables
VARIABLES
  task_group_cancel_flags,  \* group id -> BOOLEAN (partial map)
  task_groups,              \* group id -> registry entry (partial map)
  upload_cache,             \* asset path -> remote reference (partial map)
  all_output_files,         \* sequence of the metadata of the outputs, in arrival order
  image_metadata,           \* output file -> metadata (partial map)
  cancel_pc,                \* position of the thread in request_cancel_all_tasks
  targets,                  \* its local list of affected group ids
  cancels,                  \* number of cancel-all requests issued
  cfg,                      \* arguments of the run
  pc,                       \* position of the orchestrator thread
  ret,                      \* where a pending return continues
  stage,                    \* index of the stage being executed
  current_states,           \* inputs of the stage being executed
  unique_images,            \* images to upload in the stage
  upl,                      \* stage -> upload futures
  api_tasks,                \* stage -> generation tasks built
  api,                      \* stage -> generation futures
  uploaded,                 \* completions consumed by the upload loop
  upload_results,           \* image path -> remote reference (partial map)
  api_completed,            \* completions consumed by the API loop
  stage_success_outputs,    \* sequence number -> output state (partial map)
  stage_inputs,             \* stage -> the input states it was started with
  first_check,              \* outcome of the run's first cancellation poll
  observed,                 \* a cancellation poll of the run has returned true
  log_messages,             \* the run's local list of log lines
  retry,                    \* SpecRetry: one execution of call_banana_api_multi;
                            \* SpecRounds: the rounds of the batch script
  uploaders,                \* SpecUpload: thread -> its execution of upload_single_image
  ok_calls,                 \* SpecUpload: path -> successful Asset Store calls since the last clear
  clears,                   \* SpecUpload: number of clear_upload_cache calls
  submissions,              \* SpecFlags: group id -> its submission and run
  form,                     \* SpecSubmit: one submitted form and what is derived from it
  locks,                    \* SpecLocks: the five locks and the threads using them
  output_clears             \* SpecRegistry: the calls of clear_all_outputs and the position of its thread

shared == <<task_group_cancel_flags, task_groups, upload_cache, all_output_files,
           image_metadata>>
canceller == <<cancel_pc, targets, cancels>>
orch == <<cfg, pc, ret, stage, current_states, unique_images, upl, api_tasks, api,
          uploaded, upload_results, api_completed, stage_success_outputs,
          stage_inputs, first_check, observed, log_messages>>
others == <<retry, uploaders, ok_calls, clears, submissions, form, locks, output_clears>>
vars == <<shared, canceller, orch, others>>

\* ----------------------------------------------------------------- helpers
EmptyMap == <<>>

Put(m, k, v) == [x \in (DOMAIN m) \cup {k} |-> IF x = k THEN v ELSE m[x]]

Remove(m, k) == [x \in (DOMAIN m) \ {k} |-> m[x]]

Has(m, k) == k \in DOMAIN m

RECURSIVE SeqOfSet(_)
SeqOfSet(S) ==
  IF S = {} THEN <<>>
  ELSE LET x == CHOOSE y \in S : \A z \in S : y <= z
       IN <<x>> \o SeqOfSet(S \ {x})

\* The addends of a sum over a function with a finite domain.
RECURSIVE SumOver(_, _)
SumOver(f, S) ==
  IF S = {} THEN 0
  ELSE LET x == CHOOSE y \in S : TRUE IN f[x] + SumOver(f, S \ {x})

\* ------------------------------------------------------ values of the model
\* A local asset of the caller (an uploaded page image).
Source(i) == <<"src", 0, i, 0>>

\* Mutation: the file name does not hold the stage.
OutputFileWithoutStage(s, c, p) == <<"out", 0, c, p>>

\* Mutation: the tasks of a combination write the same file.
OutputFileByCombo(s, c, p) == <<"out", s, c, 0>>

\* The file a generation task writes: task_name is
\* Task_{group}_S{stage}_C{combo}_P{prompt}, the file is task_name + "_1.png".
OutputFile(s, c, p) == <<"out", s, c, p>>

\* The remote reference the Asset Store returns for a path.
Url(path) == <<"cdn", path>>

\* The group id of the run modelled in Spec.
G1 == "g1"

Status(kind, s) == <<kind, s>>

\* Mutation: the published count stays at the first completion.
ProgressStuck(s, done, total) == <<"progress", s, IF done > 1 THEN 1 ELSE done, total>>

\* f"阶段{s}: {done}/{total}"
Progress(s, done, total) == <<"progress", s, done, total>>

ProgressFinished == <<"finished", 0, 0, 0>>

TerminalKinds == {"completed", "failed", "cancelled"}

\* task_groups is a defaultdict(dict): writing a field of an absent entry
\* creates the entry with that field only.
SetField(tg, gid, field, value) ==
  Put(tg, gid, Put(IF Has(tg, gid) THEN tg[gid] ELSE EmptyMap, field, value))

EntryFields == {"status", "upload_progress", "api_progress", "log"}

NewEntry(status, up, ap, log) ==
  [f \in EntryFields |->
     IF f = "status" THEN status ELSE IF f = "upload_progress" THEN up
     ELSE IF f = "api_progress" THEN ap ELSE log]

\* A log is a list of lines: the n-th line of a run's log_messages is n,
\* the line request_cancel_all_tasks appends is CancelLine.
CancelLine == 0

AppendLine(log) == Append(log, Len(log) + 1)

\* task_groups[gid]['log'] = log_messages.copy()
WriteLog(tg, gid, log) == SetField(tg, gid, "log", log)

\* ------------------------------------------------ prompts of a stage (pure)
\* A prompt text is a sequence of prompt tokens; joining two texts with ", "
\* is concatenation and the empty text is <<>>.

\* Mutation: the carried prompt is kept by a stage that has replace_prompt.
FinalPromptAppending(base_prompt, suffix, replace_prompt) ==
  IF base_prompt # <<>> /\ suffix # <<>> THEN base_prompt \o suffix
  ELSE IF base_prompt = <<>> THEN suffix
  ELSE base_prompt

\* Lines 741-757: the prompt a stage sends for an input state and a suffix.
FinalPrompt(base_prompt, suffix, replace_prompt) ==
  IF replace_prompt THEN suffix
  ELSE IF base_prompt # <<>> /\ suffix # <<>> THEN base_prompt \o suffix
  ELSE IF base_prompt = <<>> THEN suffix
  ELSE base_prompt

RECURSIVE PromptsForCombo(_, _, _)
PromptsForCombo(base_prompt, suffixes, replace_prompt) ==
  IF suffixes = <<>> THEN <<>>
  ELSE LET final_prompt == FinalPrompt(base_prompt, Head(suffixes), replace_prompt)
           rest == PromptsForCombo(base_prompt, Tail(suffixes), replace_prompt)
       IN IF final_prompt = <<>> THEN rest ELSE <<final_prompt>> \o rest

StagePromptsPerCombo(states, st) ==
  [c \in 1..Len(states) |->
     PromptsForCombo(states[c].prompt_text, st.suffixes, st.replace_prompt)]

\* ------------------------------------------ images to upload in a stage
RECURSIVE Dedup(_, _)
Dedup(seq, acc) ==
  IF seq = <<>> THEN acc
  ELSE IF \E i \in 1..Len(acc) : acc[i] = Head(seq)
       THEN Dedup(Tail(seq), acc)
       ELSE Dedup(Tail(seq), Append(acc, Head(seq)))

RECURSIVE Flatten(_)
Flatten(seqs) == IF seqs = <<>> THEN <<>> ELSE Head(seqs) \o Flatten(Tail(seqs))

UniqueImages(states) ==
  Dedup(Flatten([c \in 1..Len(states) |-> states[c].images]), <<>>)

\* -------------------------------------------- generation tasks of a stage
ComboUsable(state, prompts_for_combo, results) ==
  /\ prompts_for_combo # <<>>
  /\ state.images # <<>>
  /\ \A i \in 1..Len(state.images) : Has(results, state.images[i])

\* Mutation: a task is given the reference of the first image only.
TasksOfComboFirstUrl(s, c, state, prompts_for_combo, results, sequence) ==
  [p \in 1..Len(prompts_for_combo) |->
     [sequence      |-> sequence + p,
      combo_idx     |-> c,
      prompt_idx    |-> p,
      cdn_urls      |-> <<results[state.images[1]]>>,
      source_images |-> state.images,
      prompt        |-> prompts_for_combo[p],
      output_file   |-> OutputFile(s, c, p)]]

TasksOfCombo(s, c, state, prompts_for_combo, results, sequence) ==
  [p \in 1..Len(prompts_for_combo) |->
     [sequence      |-> sequence + p,
      combo_idx     |-> c,
      prompt_idx    |-> p,
      cdn_urls      |-> [i \in 1..Len(state.images) |-> results[state.images[i]]],
      source_images |-> state.images,
      prompt        |-> prompts_for_combo[p],
      output_file   |-> OutputFile(s, c, p)]]

RECURSIVE BuildApiTasks(_, _, _, _, _, _)
BuildApiTasks(s, states, prompts, results, c, acc) ==
  IF c > Len(states) THEN acc
  ELSE IF ComboUsable(states[c], prompts[c], results)
       THEN BuildApiTasks(s, states, prompts, results, c + 1,
              acc \o TasksOfCombo(s, c, states[c], prompts[c], results, Len(acc)))
       ELSE BuildApiTasks(s, states, prompts, results, c + 1, acc)

\* ------------------------------------------------------------ worker pools
QueuedFuture == [st |-> "queued", attempt |-> 0, fails |-> 0, ok |-> FALSE, taken |-> FALSE]

\* Futures occupying a worker thread of the pool.
Running(futs) == {i \in DOMAIN futs : futs[i].st \in {"calling", "sleeping"}}

\* Mutation: a pool that starts a thread for every work item.
CanStartUnlimited(futs, i, max_workers) ==
  /\ i \in DOMAIN futs
  /\ futs[i].st = "queued"
  /\ \A j \in DOMAIN futs : j < i => futs[j].st # "queued"

\* A ThreadPoolExecutor starts queued work items in submission order,
\* as soon as one of its max_workers threads is free.
CanStart(futs, i, max_workers) ==
  /\ i \in DOMAIN futs
  /\ futs[i].st = "queued"
  /\ \A j \in DOMAIN futs : j < i => futs[j].st # "queued"
  /\ Cardinality(Running(futs)) < max_workers

\* as_completed yields every submitted future once, after it has finished.
Completed(futs) == {i \in DOMAIN futs : futs[i].st = "done" /\ ~futs[i].taken}

\* Mutation: the loop is left after its first completion.
LoopExhaustedAfterFirst(futs) == \E i \in DOMAIN futs : futs[i].taken

LoopExhausted(futs) == \A i \in DOMAIN futs : futs[i].taken

\* Leaving the with-block calls shutdown(wait=True): it returns when every
\* submitted work item has run to its end.
PoolShutDown(futs) == \A i \in DOMAIN futs : futs[i].st = "done"

\* -------------------------------------------------- retry loop (one attempt)
\* What call_banana_api_multi does with the outcome of attempt number
\* `attempt`: "success" returns the success tuple, "sleep" waits and loops,
\* "failure" returns the failure tuple.
AttemptOutcomes == {"ok", "errors", "empty", "exception"}

\* Mutation: one attempt too many.
AfterAttemptOffByOne(outcome, attempt, max_retries) ==
  IF outcome = "ok" THEN "success"
  ELSE IF attempt <= max_retries THEN "sleep"
  ELSE "failure"

AfterAttempt(outcome, attempt, max_retries) ==
  IF outcome = "ok" THEN "success"
  ELSE IF attempt < max_retries THEN "sleep"
  ELSE "failure"

\* time.sleep(1 * attempt)
Backoff(attempt) == 1 * attempt

\* =========================================================================
\* Spec: one task group run by process_flexible_combinations_async
\* =========================================================================

\* -------------------------------------------------------- inputs of the run
\* The suffixes of stage s: n distinct non-empty prompt texts.
Suffixes(s, n) == [i \in 1..n |-> << <<s, i>> >>]

StagePlans ==
  UNION {
    { [s \in 1..len |->
         [stage_index |-> s, suffixes |-> Suffixes(s, counts[s]),
          replace_prompt |-> repl[s]]] :
        counts \in [1..len -> 1..MaxPrompts],
        repl \in {r \in [1..len -> BOOLEAN] : ~r[1]} }
    : len \in 1..MaxStages }

\* The combinations calculate_image_combinations yields for one multiply
\* page of n images (n combinations of one image) and for one add page of
\* n images (one combination of n images).
InitialCombinations ==
  {[c \in 1..n |-> <<Source(c)>>] : n \in 1..MaxCombos}
    \cup {<<[i \in 1..n |-> Source(i)]>> : n \in 2..MaxCombos}

RECURSIVE StageTaskEstimate(_, _, _)
StageTaskEstimate(plan, s, inputs) ==
  IF s > Len(plan) THEN 0
  ELSE LET tasks == inputs * Len(plan[s].suffixes)
       IN IF tasks > StageTaskEstimate(plan, s + 1, tasks)
          THEN tasks ELSE StageTaskEstimate(plan, s + 1, tasks)

Configs ==
  {c \in [initial_combinations : InitialCombinations,
          stage_plan : StagePlans,
          max_workers : 1..MaxWorkers,
          max_retries : 1..MaxRetries] :
     StageTaskEstimate(c.stage_plan, 1, Len(c.initial_combinations)) <= MaxTasks}

QueuedUpload == [st |-> "queued", ok |-> FALSE, taken |-> FALSE, hit |-> FALSE, url |-> <<>>]

\* The form has three prompt groups (prompt1..prompt3): a plan has at most
\* as many stages.
PromptGroupCount == 3

StageSlots == IF MaxStages > PromptGroupCount THEN MaxStages ELSE PromptGroupCount

NoFutures == [s \in 1..StageSlots |-> <<>>]

\* The state right after batch_generate_flexible has registered the group
\* for cancellation and started the background thread.
InitShared ==
  /\ task_groups = EmptyMap
  /\ upload_cache = EmptyMap
  /\ all_output_files = <<>>
  /\ image_metadata = EmptyMap
  /\ cancel_pc = "idle"
  /\ targets = {}
  /\ cancels = 0

InitOrch(configs, start) ==
  /\ cfg \in configs
  /\ pc = start
  /\ ret = "finally"
  /\ stage = 1
  /\ current_states = <<>>
  /\ unique_images = <<>>
  /\ upl = NoFutures
  /\ api_tasks = NoFutures
  /\ api = NoFutures
  /\ uploaded = 0
  /\ upload_results = EmptyMap
  /\ api_completed = 0
  /\ stage_success_outputs = EmptyMap
  /\ stage_inputs = NoFutures
  /\ first_check = "none"
  /\ observed = FALSE
  /\ log_messages = <<>>

\* No run: the orchestrator variables of the specifications that do not
\* execute process_flexible_combinations_async.
NoRun == [initial_combinations |-> <<>>, stage_plan |-> <<>>,
          max_workers |-> 1, max_retries |-> 1]

NoForm == [pc |-> "none"]

NoLocks == [owner |-> <<>>, threads |-> <<>>]

NoClears == [calls |-> 0, pc |-> "idle"]

NoRetry == [pc |-> "returned", max_retries |-> 0, attempt |-> 0, calls |-> 0,
            sleeps |-> <<>>, outcomes |-> <<>>, result |-> "none"]

\* The variables of the specifications that are not running.
InitExtras ==
  /\ form = NoForm
  /\ locks = NoLocks
  /\ output_clears = NoClears

InitOthers ==
  /\ InitExtras
  /\ retry = NoRetry
  /\ uploaders = EmptyMap
  /\ ok_calls = EmptyMap
  /\ clears = 0
  /\ submissions = EmptyMap

Init ==
  /\ InitShared
  /\ task_group_cancel_flags = Put(EmptyMap, G1, FALSE)
  /\ InitOrch(Configs, "pending")
  /\ InitOthers

\* ------------------------------------------------------- cancellation flags
\* Mutation: a poll never finds the flag set.
is_task_group_never_cancelled(flags, gid) == FALSE

\* Lines 84-86.
is_task_group_cancelled(flags, gid) == IF Has(flags, gid) THEN flags[gid] ELSE FALSE

clear_task_group_cancel_flag(flags, gid) == Remove(flags, gid)

\* Mutation: the flags are left as they are.
FlagsUntouched(flags) == flags

\* Lines 92-94: every flag there is becomes True.
FlagsAllSet(flags) == [g \in DOMAIN flags |-> TRUE]

\* request_cancel_all_tasks, first critical section (task_group_cancel_lock).
RequestCancelFlags ==
  /\ cancel_pc = "idle"
  /\ cancels < MaxCancels
  /\ cancels' = cancels + 1
  /\ targets' = DOMAIN task_group_cancel_flags
  /\ task_group_cancel_flags' = FlagsAllSet(task_group_cancel_flags)
  /\ cancel_pc' = IF DOMAIN task_group_cancel_flags = {} THEN "idle" ELSE "mark"
  /\ UNCHANGED <<task_groups, upload_cache, all_output_files, image_metadata, orch>>
  /\ UNCHANGED others

RECURSIVE MarkRequested(_, _)
MarkRequested(tg, gids) ==
  IF gids = {} THEN tg
  ELSE LET gid == CHOOSE g \in gids : TRUE
       IN MarkRequested(
            IF Has(tg, gid)
            THEN SetField(
                   WriteLog(tg, gid,
                     Append(IF Has(tg[gid], "log") THEN tg[gid]["log"] ELSE <<>>,
                            CancelLine)),
                   gid, "status", Status("cancel_requested", 0))
            ELSE tg,
            gids \ {gid})

\* request_cancel_all_tasks, second critical section (task_groups_lock).
RequestCancelMark ==
  /\ cancel_pc = "mark"
  /\ task_groups' = MarkRequested(task_groups, targets)
  /\ cancel_pc' = "idle"
  /\ targets' = {}
  /\ UNCHANGED <<task_group_cancel_flags, upload_cache, all_output_files, image_metadata,
                 cancels, orch>>
  /\ UNCHANGED others

\* ------------------------------------------------------------ orchestrator
Cancelled == is_task_group_cancelled(task_group_cancel_flags, G1)

InitialStates(combos) ==
  [c \in 1..Len(combos) |-> [images |-> combos[c], prompt_text |-> <<>>]]

\* Lines 673-703: the registry entry of the group is created.
RunInit ==
  /\ pc = "pending"
  /\ IF Len(cfg.stage_plan) = 0
     THEN /\ task_groups' = Put(task_groups, G1,
                NewEntry(Status("failed", 0), Progress(0, 0, 0), Progress(0, 0, 0),
                         AppendLine(<<>>)))
          /\ pc' = "done"
          /\ UNCHANGED <<current_states, log_messages>>
     ELSE /\ task_groups' = Put(task_groups, G1,
                NewEntry(Status("waiting", 0), Progress(0, 0, 0), Progress(0, 0, 0),
                         AppendLine(<<>>)))
          /\ log_messages' = AppendLine(<<>>)
          /\ pc' = "stage_begin"
          /\ current_states' = InitialStates(cfg.initial_combinations)
  /\ UNCHANGED <<task_group_cancel_flags, upload_cache, all_output_files, image_metadata, canceller,
                 cfg, ret, stage, unique_images, upl, api_tasks, api, uploaded,
                 upload_results, api_completed, stage_success_outputs,
                 stage_inputs, first_check, observed>>
  /\ UNCHANGED others

\* Lines 706-770: the poll at the head of a stage, then the local planning.
StageBegin ==
  /\ pc = "stage_begin"
  /\ first_check' = IF first_check = "none"
                    THEN (IF Cancelled THEN "set" ELSE "clear")
                    ELSE first_check
  /\ IF Cancelled
     THEN /\ pc' = "cancel_write"
          /\ ret' = "finally"
          /\ UNCHANGED <<unique_images, stage_inputs, task_groups, log_messages>>
     ELSE IF current_states = <<>>
     THEN /\ pc' = "finally"
          /\ log_messages' = AppendLine(log_messages)
          /\ task_groups' = WriteLog(
                SetField(task_groups, G1, "status", Status("failed", stage)),
                G1, AppendLine(log_messages))
          /\ UNCHANGED <<ret, unique_images, stage_inputs>>
     ELSE /\ pc' = "publish_upload"
          /\ unique_images' = UniqueImages(current_states)
          /\ stage_inputs' = [stage_inputs EXCEPT ![stage] = current_states]
          /\ log_messages' = AppendLine(log_messages)
          /\ UNCHANGED <<ret, task_groups>>
  /\ UNCHANGED <<task_group_cancel_flags, upload_cache, all_output_files, image_metadata, canceller,
                 cfg, stage, current_states, upl, api_tasks, api,
                 uploaded, upload_results, api_completed, stage_success_outputs>>
  /\ observed' = (observed \/ (Cancelled /\ pc' = "cancel_write"))
  /\ UNCHANGED others

\* The status write that follows every positive poll.
CancelWrite ==
  /\ pc = "cancel_write"
  /\ log_messages' = AppendLine(log_messages)
  /\ task_groups' = WriteLog(
        SetField(task_groups, G1, "status", Status("cancelled", 0)),
        G1, AppendLine(log_messages))
  /\ pc' = ret
  /\ UNCHANGED <<task_group_cancel_flags, upload_cache, all_output_files, image_metadata, canceller,
                 cfg, ret, stage, current_states, unique_images, upl, api_tasks, api,
                 uploaded, upload_results, api_completed, stage_success_outputs,
                 stage_inputs, first_check, observed>>
  /\ UNCHANGED others

\* Lines 772-777.
PublishUpload ==
  /\ pc = "publish_upload"
  /\ task_groups' =
       WriteLog(
       SetField(SetField(task_groups, G1, "status", Status("uploading", stage)),
                G1, "upload_progress", Progress(stage, 0, Len(unique_images))),
         G1, log_messages)
  /\ upload_results' = EmptyMap
  /\ uploaded' = 0
  /\ pc' = "pre_upload"
  /\ UNCHANGED <<task_group_cancel_flags, upload_cache, all_output_files, image_metadata, canceller,
                 cfg, ret, stage, current_states, unique_images, upl, api_tasks, api,
                 api_completed, stage_success_outputs, stage_inputs, first_check, observed, log_messages>>
  /\ UNCHANGED others

\* Lines 778-790: the poll before the upload pool, then every upload is
\* submitted to the pool.
PreUpload ==
  /\ pc = "pre_upload"
  /\ IF unique_images = <<>>
     THEN /\ pc' = "after_upload"
          /\ UNCHANGED <<ret, upl>>
     ELSE IF Cancelled
     THEN /\ pc' = "cancel_write"
          /\ ret' = "finally"
          /\ UNCHANGED upl
     ELSE /\ pc' = "upload_loop"
          /\ upl' = [upl EXCEPT ![stage] =
                       [i \in 1..Len(unique_images) |-> QueuedUpload]]
          /\ UNCHANGED ret
  /\ UNCHANGED <<shared, canceller, cfg, stage, current_states, unique_images,
                 api_tasks, api, uploaded, upload_results, api_completed,
                 stage_success_outputs, stage_inputs, first_check, log_messages>>
  /\ observed' = (observed \/ (Cancelled /\ pc' = "cancel_write"))
  /\ UNCHANGED others

\* ------------------------------------------- upload_single_image on a worker
\* What the Asset Store call (upload_file_zh) can do: return a remote
\* reference, return nothing, or raise.
UploadOutcomes == {"url", "empty", "raise"}

\* Mutation: the cache is never consulted.
CacheNeverHit(cache, path) == FALSE

CacheHit(cache, path) == Has(cache, path)

\* Mutation: every reference is stored under the first path.
CacheStoreFirstPath(cache, path, url) == Put(cache, Source(1), url)

\* Lines 181-182: upload_cache[image_path] = cdn_url.
CacheStore(cache, path, url) == Put(cache, path, url)

\* Lines 166-176: a worker takes the upload and looks the path up in the
\* cache; on a miss the Asset Store call begins.
UploadStart(i) ==
  /\ CanStart(upl[stage], i, cfg.max_workers)
  /\ upl' = [upl EXCEPT ![stage][i] =
       IF CacheHit(upload_cache, unique_images[i])
       THEN [@ EXCEPT !.st = "done", !.ok = TRUE, !.hit = TRUE,
                      !.url = upload_cache[unique_images[i]]]
       ELSE [@ EXCEPT !.st = "calling"]]
  /\ UNCHANGED <<shared, canceller, cfg, pc, ret, stage, current_states, unique_images,
                 api_tasks, api, uploaded, upload_results, api_completed,
                 stage_success_outputs, stage_inputs, first_check, observed, log_messages>>
  /\ UNCHANGED others

\* Lines 176-188: the Asset Store call returns; a reference is cached.
UploadReturn(i) ==
  /\ i \in DOMAIN upl[stage]
  /\ upl[stage][i].st = "calling"
  /\ \E outcome \in UploadOutcomes :
       IF outcome = "url"
       THEN /\ upload_cache' = CacheStore(upload_cache, unique_images[i],
                                          Url(unique_images[i]))
            /\ upl' = [upl EXCEPT ![stage][i] =
                 [@ EXCEPT !.st = "done", !.ok = TRUE, !.url = Url(unique_images[i])]]
       ELSE /\ upl' = [upl EXCEPT ![stage][i] = [@ EXCEPT !.st = "done"]]
            /\ UNCHANGED upload_cache
  /\ UNCHANGED <<task_group_cancel_flags, task_groups, all_output_files, image_metadata,
                 canceller,
                 cfg, pc, ret, stage, current_states, unique_images, api_tasks, api,
                 uploaded, upload_results, api_completed, stage_success_outputs,
                 stage_inputs, first_check, observed, log_messages>>
  /\ UNCHANGED others

\* Lines 793-803: the upload loop consumes one completion and publishes
\* the progress.
UploadConsume(i) ==
  /\ pc = "upload_loop"
  /\ i \in Completed(upl[stage])
  /\ upl' = [upl EXCEPT ![stage][i].taken = TRUE]
  /\ uploaded' = uploaded + 1
  /\ upload_results' =
       IF upl[stage][i].ok /\ upl[stage][i].url # <<>>
       THEN Put(upload_results, unique_images[i], upl[stage][i].url)
       ELSE upload_results
  /\ log_messages' = AppendLine(log_messages)
  /\ task_groups' = WriteLog(
        SetField(task_groups, G1, "upload_progress",
                 Progress(stage, uploaded + 1, Len(unique_images))),
        G1, AppendLine(log_messages))
  /\ pc' = "upload_poll"
  /\ UNCHANGED <<task_group_cancel_flags, upload_cache, all_output_files, image_metadata, canceller,
                 cfg, ret, stage, current_states, unique_images, api_tasks, api,
                 api_completed, stage_success_outputs, stage_inputs, first_check, observed>>
  /\ UNCHANGED others

\* Lines 805-810: the poll after every upload completion.  A return from
\* inside the with-block still runs the pool's shutdown.
UploadPoll ==
  /\ pc = "upload_poll"
  /\ IF Cancelled
     THEN /\ pc' = "cancel_write"
          /\ ret' = "shutdown_upload"
     ELSE /\ pc' = "upload_loop"
          /\ UNCHANGED ret
  /\ UNCHANGED <<shared, canceller, cfg, stage, current_states, unique_images, upl,
                 api_tasks, api, uploaded, upload_results, api_completed,
                 stage_success_outputs, stage_inputs, first_check, log_messages>>
  /\ observed' = (observed \/ (Cancelled /\ pc' = "cancel_write"))
  /\ UNCHANGED others

UploadLoopEnd ==
  /\ pc = "upload_loop"
  /\ LoopExhausted(upl[stage])
  /\ pc' = "after_upload"
  /\ UNCHANGED <<shared, canceller, cfg, ret, stage, current_states, unique_images,
                 upl, api_tasks, api, uploaded, upload_results, api_completed,
                 stage_success_outputs, stage_inputs, first_check, observed, log_messages>>
  /\ UNCHANGED others

\* Mutation: an empty result map is not treated as a failure.
UploadsNeverFailed(images, results) == FALSE

\* Line 812: unique_images and not upload_results.
UploadsFailed(images, results) == images # <<>> /\ DOMAIN results = {}

\* Lines 812-869: no upload succeeded, or the tasks are built and the flag
\* is polled once more before the API phase.
AfterUpload ==
  /\ pc = "after_upload"
  /\ LET tasks == BuildApiTasks(stage, current_states,
                    StagePromptsPerCombo(current_states, cfg.stage_plan[stage]),
                    upload_results, 1, <<>>)
     IN IF UploadsFailed(unique_images, upload_results)
        THEN /\ task_groups' = WriteLog(
                   SetField(task_groups, G1, "status", Status("failed", stage)),
                   G1, log_messages)
             /\ pc' = "finally"
             /\ UNCHANGED <<ret, api_tasks, log_messages>>
        ELSE IF tasks = <<>>
        THEN /\ log_messages' = AppendLine(AppendLine(log_messages))
             /\ task_groups' = WriteLog(
                   SetField(task_groups, G1, "status", Status("no_tasks", stage)),
                   G1, AppendLine(AppendLine(log_messages)))
             /\ pc' = "finally"
             /\ UNCHANGED <<ret, api_tasks>>
        ELSE IF Cancelled
        THEN /\ pc' = "cancel_write"
             /\ ret' = "finally"
             /\ log_messages' = AppendLine(log_messages)
             /\ UNCHANGED <<task_groups, api_tasks>>
        ELSE /\ pc' = "publish_api"
             /\ api_tasks' = [api_tasks EXCEPT ![stage] = tasks]
             /\ log_messages' = AppendLine(log_messages)
             /\ UNCHANGED <<task_groups, ret>>
  /\ UNCHANGED <<task_group_cancel_flags, upload_cache, all_output_files, image_metadata, canceller,
                 cfg, stage, current_states, unique_images, upl, api, uploaded,
                 upload_results, api_completed, stage_success_outputs,
                 stage_inputs, first_check>>
  /\ observed' = (observed \/ (Cancelled /\ pc' = "cancel_write"))
  /\ UNCHANGED others

\* Lines 871-902: the API phase is published and every task is submitted.
PublishApi ==
  /\ pc = "publish_api"
  /\ task_groups' =
       WriteLog(
       SetField(SetField(task_groups, G1, "status", Status("generating", stage)),
                G1, "api_progress", Progress(stage, 0, Len(api_tasks[stage]))),
         G1, log_messages)
  /\ stage_success_outputs' = EmptyMap
  /\ api_completed' = 0
  /\ api' = [api EXCEPT ![stage] = [i \in 1..Len(api_tasks[stage]) |-> QueuedFuture]]
  /\ pc' = "api_loop"
  /\ UNCHANGED <<task_group_cancel_flags, upload_cache, all_output_files, image_metadata, canceller,
                 cfg, ret, stage, current_states, unique_images, upl, api_tasks,
                 uploaded, upload_results, stage_inputs, first_check, observed, log_messages>>
  /\ UNCHANGED others

\* --------------------------------------- call_banana_api_multi on a worker
\* Line 975: a worker takes the task; attempt 1 calls the Generation Service.
ApiStart(i) ==
  /\ CanStart(api[stage], i, cfg.max_workers)
  /\ api' = [api EXCEPT ![stage][i] = [@ EXCEPT !.st = "calling", !.attempt = 1]]
  /\ UNCHANGED <<shared, canceller, cfg, pc, ret, stage, current_states, unique_images,
                 upl, api_tasks, uploaded, upload_results, api_completed,
                 stage_success_outputs, stage_inputs, first_check, observed, log_messages>>
  /\ UNCHANGED others

\* Mutation: the metadata counts the retries, not the attempts.
MetadataCountingRetries(task, s, attempt) ==
  [file |-> task.output_file, prompt |-> task.prompt, stage_index |-> s,
   retry_attempts |-> attempt - 1]

\* The metadata call_banana_api_multi builds for a success (lines 1009-1027).
Metadata(task, s, attempt) ==
  [file |-> task.output_file, prompt |-> task.prompt, stage_index |-> s,
   retry_attempts |-> attempt]

\* Lines 978-1042: the attempt ends; the task returns a success (after it
\* has stored the metadata of the output), sleeps, or returns a failure.
ApiReturn(i) ==
  /\ i \in DOMAIN api[stage]
  /\ api[stage][i].st = "calling"
  /\ \E outcome \in AttemptOutcomes :
       LET next == AfterAttempt(outcome, api[stage][i].attempt, cfg.max_retries)
       IN IF next = "success"
          THEN /\ api' = [api EXCEPT ![stage][i] = [@ EXCEPT !.st = "done", !.ok = TRUE]]
               /\ image_metadata' =
                    Put(image_metadata, api_tasks[stage][i].output_file,
                        Metadata(api_tasks[stage][i], stage, api[stage][i].attempt))
          ELSE /\ api' = [api EXCEPT ![stage][i] =
                    [@ EXCEPT !.st = IF next = "sleep" THEN "sleeping" ELSE "done",
                              !.fails = @ + 1]]
               /\ UNCHANGED image_metadata
  /\ UNCHANGED <<task_group_cancel_flags, task_groups, upload_cache, all_output_files,
                 canceller, cfg, pc, ret, stage, current_states, unique_images,
                 upl, api_tasks, uploaded, upload_results, api_completed,
                 stage_success_outputs, stage_inputs, first_check, observed, log_messages>>
  /\ UNCHANGED others

\* The sleep ends and the next attempt calls the Generation Service.
ApiWake(i) ==
  /\ i \in DOMAIN api[stage]
  /\ api[stage][i].st = "sleeping"
  /\ api' = [api EXCEPT ![stage][i] =
       [@ EXCEPT !.st = "calling", !.attempt = @ + 1]]
  /\ UNCHANGED <<shared, canceller, cfg, pc, ret, stage, current_states, unique_images,
                 upl, api_tasks, uploaded, upload_results, api_completed,
                 stage_success_outputs, stage_inputs, first_check, observed, log_messages>>
  /\ UNCHANGED others

\* Mutation: successes are keyed by the combination index.
OutputKeyByCombo(task) == task.combo_idx

\* The key under which a success is kept for the next stage (line 910).
OutputKey(task) == task.sequence

\* Lines 904-923: the API loop consumes one completion, records a success
\* as an input of the next stage and publishes the progress.
ApiConsume(i) ==
  /\ pc = "api_loop"
  /\ i \in Completed(api[stage])
  /\ api' = [api EXCEPT ![stage][i].taken = TRUE]
  /\ api_completed' = api_completed + 1
  /\ IF api[stage][i].ok
     THEN /\ stage_success_outputs' =
               Put(stage_success_outputs, OutputKey(api_tasks[stage][i]),
                   [images |-> <<api_tasks[stage][i].output_file>>,
                    prompt_text |-> api_tasks[stage][i].prompt])
          /\ all_output_files' =
               Append(all_output_files,
                      Metadata(api_tasks[stage][i], stage, api[stage][i].attempt))
     ELSE UNCHANGED <<stage_success_outputs, all_output_files>>
  /\ log_messages' = AppendLine(log_messages)
  /\ task_groups' = WriteLog(
        SetField(task_groups, G1, "api_progress",
                 Progress(stage, api_completed + 1, Len(api_tasks[stage]))),
        G1, AppendLine(log_messages))
  /\ pc' = "api_poll"
  /\ UNCHANGED <<task_group_cancel_flags, upload_cache, image_metadata, canceller, cfg, ret,
                 stage,
                 current_states, unique_images, upl, api_tasks, uploaded,
                 upload_results, stage_inputs, first_check, observed>>
  /\ UNCHANGED others

\* Lines 925-930: the poll after every task completion.
ApiPoll ==
  /\ pc = "api_poll"
  /\ IF Cancelled
     THEN /\ pc' = "cancel_write"
          /\ ret' = "shutdown_api"
     ELSE /\ pc' = "api_loop"
          /\ UNCHANGED ret
  /\ UNCHANGED <<shared, canceller, cfg, stage, current_states, unique_images, upl,
                 api_tasks, api, uploaded, upload_results, api_completed,
                 stage_success_outputs, stage_inputs, first_check, log_messages>>
  /\ observed' = (observed \/ (Cancelled /\ pc' = "cancel_write"))
  /\ UNCHANGED others

\* Mutation: the successful outputs in descending sequence order.
NewStatesDescending(outputs) ==
  LET order == SeqOfSet(DOMAIN outputs)
  IN [k \in 1..Len(order) |-> outputs[order[Len(order) + 1 - k]]]

\* Line 942: the successful outputs in ascending sequence order.
NewStates(outputs) ==
  LET order == SeqOfSet(DOMAIN outputs)
  IN [k \in 1..Len(order) |-> outputs[order[k]]]

\* Mutation: a stage without a success is not treated as failed.
StageNeverFailed(outputs) == FALSE

\* Line 935: success_count == 0.
StageFailed(outputs) == Cardinality(DOMAIN outputs) = 0

\* Lines 932-947: every completion was consumed and the pool is shut down;
\* the stage fails or its outputs become the inputs of the next stage.
ApiLoopEnd ==
  /\ pc = "api_loop"
  /\ LoopExhausted(api[stage])
  /\ log_messages' = AppendLine(log_messages)
  /\ IF StageFailed(stage_success_outputs)
     THEN /\ task_groups' = WriteLog(
                SetField(task_groups, G1, "status", Status("failed", stage)),
                G1, AppendLine(log_messages))
          /\ pc' = "finally"
          /\ UNCHANGED <<current_states, stage>>
     ELSE /\ task_groups' = WriteLog(
                SetField(task_groups, G1, "status", Status("stage_done", stage)),
                G1, AppendLine(log_messages))
          /\ current_states' = NewStates(stage_success_outputs)
          /\ stage' = IF stage = Len(cfg.stage_plan) THEN stage ELSE stage + 1
          /\ pc' = IF stage = Len(cfg.stage_plan)
                   THEN "complete_write" ELSE "stage_begin"
  /\ UNCHANGED <<task_group_cancel_flags, upload_cache, all_output_files, image_metadata, canceller,
                 cfg, ret, unique_images, upl, api_tasks, api, uploaded,
                 upload_results, api_completed, stage_success_outputs,
                 stage_inputs, first_check, observed>>
  /\ UNCHANGED others

\* Lines 949-953.
CompleteWrite ==
  /\ pc = "complete_write"
  /\ task_groups' =
       WriteLog(
         SetField(SetField(SetField(task_groups, G1, "status", Status("completed", 0)),
                           G1, "upload_progress", ProgressFinished),
                  G1, "api_progress", ProgressFinished),
         G1, log_messages)
  /\ pc' = "finally"
  /\ UNCHANGED <<task_group_cancel_flags, upload_cache, all_output_files, image_metadata, canceller,
                 cfg, ret, stage, current_states, unique_images, upl, api_tasks, api,
                 uploaded, upload_results, api_completed, stage_success_outputs,
                 stage_inputs, first_check, observed, log_messages>>
  /\ UNCHANGED others

\* The return out of a with-block waits in ThreadPoolExecutor.__exit__
\* until the pool has run every submitted work item.
ShutdownWait ==
  /\ \/ pc = "shutdown_upload" /\ PoolShutDown(upl[stage])
     \/ pc = "shutdown_api" /\ PoolShutDown(api[stage])
  /\ pc' = "finally"
  /\ UNCHANGED <<shared, canceller, cfg, ret, stage, current_states, unique_images,
                 upl, api_tasks, api, uploaded, upload_results, api_completed,
                 stage_success_outputs, stage_inputs, first_check, observed, log_messages>>
  /\ UNCHANGED others

\* Lines 963-964: the finally clause.
Finally ==
  /\ pc = "finally"
  /\ task_group_cancel_flags' = clear_task_group_cancel_flag(task_group_cancel_flags, G1)
  /\ pc' = "done"
  /\ UNCHANGED <<task_groups, upload_cache, all_output_files, image_metadata, canceller, cfg, ret,
                 stage, current_states, unique_images, upl, api_tasks, api, uploaded,
                 upload_results, api_completed, stage_success_outputs,
                 stage_inputs, first_check, observed, log_messages>>
  /\ UNCHANGED others

Next ==
  \/ RequestCancelFlags
  \/ RequestCancelMark
  \/ RunInit
  \/ StageBegin
  \/ CancelWrite
  \/ PublishUpload
  \/ PreUpload
  \/ \E i \in 1..Len(unique_images) : UploadStart(i)
  \/ \E i \in 1..Len(unique_images) : UploadReturn(i)
  \/ \E i \in 1..Len(unique_images) : UploadConsume(i)
  \/ UploadPoll
  \/ UploadLoopEnd
  \/ AfterUpload
  \/ PublishApi
  \/ \E i \in DOMAIN api[stage] : ApiStart(i)
  \/ \E i \in DOMAIN api[stage] : ApiReturn(i)
  \/ \E i \in DOMAIN api[stage] : ApiWake(i)
  \/ \E i \in DOMAIN api[stage] : ApiConsume(i)
  \/ ApiPoll
  \/ ApiLoopEnd
  \/ CompleteWrite
  \/ ShutdownWait
  \/ Finally

Spec == Init /\ [][Next]_vars

\* =========================================================================
\* Properties of Spec
\* =========================================================================
RECURSIVE SumAttempts(_, _)
SumAttempts(futs, i) ==
  IF i > Len(futs) THEN 0 ELSE futs[i].attempt + SumAttempts(futs, i + 1)

\* Asset Store calls begun by the upload futures of one stage.
UploadCalls(futs) ==
  Cardinality({i \in DOMAIN futs :
                 futs[i].st = "calling" \/ (futs[i].st = "done" /\ ~futs[i].hit)})

\* Generation Service calls begun by the API futures of one stage.
ApiCalls(futs) == SumAttempts(futs, 1)

RECURSIVE CallsFrom(_, _, _)
CallsFrom(u, a, s) ==
  IF s > MaxStages THEN 0
  ELSE UploadCalls(u[s]) + ApiCalls(a[s]) + CallsFrom(u, a, s + 1)

CallsBegun(u, a) == CallsFrom(u, a, 1)

StageCalls(s) == UploadCalls(upl[s]) + ApiCalls(api[s])

AllResolved(futs) == futs # <<>> /\ \A i \in DOMAIN futs : futs[i].st = "done"

AllFailed(futs) == AllResolved(futs) /\ \A i \in DOMAIN futs : ~futs[i].ok

StatusOf(tg) == IF Has(tg, G1) /\ Has(tg[G1], "status") THEN tg[G1]["status"]
                ELSE Status("absent", 0)

\* C1: no upload or generation call of stage s+1 has begun unless every
\* generation task of stage s has resolved.
C1_StageBarrier ==
  \A s \in 1..(MaxStages - 1) : StageCalls(s + 1) > 0 => AllResolved(api[s])

\* A stage-2 call has begun after a stage 1 whose tasks resolved both ways.
W_C1 ==
  /\ StageCalls(2) > 0
  /\ \E i, j \in DOMAIN api[1] : api[1][i].ok /\ ~api[1][j].ok

\* The input state a successful task hands to the next stage.
OutputState(task) == [images |-> <<task.output_file>>, prompt_text |-> task.prompt]

SuccessfulTasks(s) == {i \in DOMAIN api[s] : api[s][i].ok}

\* C2: the inputs stage s was started with are exactly one state per
\* successful task of stage s-1 (its output file, its prompt), nothing else.
C2_NextStageInputs ==
  \A s \in 2..MaxStages :
    stage_inputs[s] # <<>> =>
      /\ Len(stage_inputs[s]) = Cardinality(SuccessfulTasks(s - 1))
      /\ {stage_inputs[s][k] : k \in 1..Len(stage_inputs[s])}
           = {OutputState(api_tasks[s - 1][i]) : i \in SuccessfulTasks(s - 1)}

\* Stage 2 has started from a stage 1 with a success and a failure.
W_C2 ==
  /\ stage_inputs[2] # <<>>
  /\ \E i, j \in DOMAIN api[1] : api[1][i].ok /\ ~api[1][j].ok

\* C3: once the orchestrator has seen the flag and written the cancelled
\* status from inside a pool, no Asset Store or Generation Service call begins.
C3_NoCallAfterCancel ==
  [][(pc \in {"shutdown_upload", "shutdown_api"})
       => CallsBegun(upl', api') = CallsBegun(upl, api)]_vars

\* C4: a run whose first poll finds the flag set ends with the status
\* cancelled and without any Asset Store or Generation Service call.
C4_CancelledBeforeStart ==
  (pc = "done" /\ first_check = "set")
     => (StatusOf(task_groups) = Status("cancelled", 0) /\ CallsBegun(upl, api) = 0)

\* C6: a task that succeeds after max_retries - 1 failed attempts is a
\* success whose metadata records retry_attempts = max_retries; a task whose
\* max_retries attempts all failed is a failure and is no input of the next
\* stage.
C6_RetryAccounting ==
  \A s \in 1..MaxStages : \A i \in DOMAIN api[s] :
    LET f == api[s][i]
        t == api_tasks[s][i]
    IN /\ (f.st = "done" /\ f.attempt = cfg.max_retries /\ f.fails = cfg.max_retries - 1)
            => /\ f.ok
               /\ Has(image_metadata, t.output_file)
               /\ image_metadata[t.output_file].retry_attempts = cfg.max_retries
               /\ f.taken =>
                    \E k \in 1..Len(all_output_files) :
                       /\ all_output_files[k].file = t.output_file
                       /\ all_output_files[k].retry_attempts = cfg.max_retries
       /\ f.fails = cfg.max_retries
            => /\ f.st = "done" /\ ~f.ok
               /\ ~Has(image_metadata, t.output_file)
               /\ s = stage => ~Has(stage_success_outputs, t.sequence)
               /\ s < MaxStages =>
                    \A k \in 1..Len(stage_inputs[s + 1]) :
                       stage_inputs[s + 1][k].images # <<t.output_file>>

\* A retried success was consumed while a sibling failed for good and the
\* next stage has started.
W_C6 ==
  /\ cfg.max_retries >= 2
  /\ stage_inputs[2] # <<>>
  /\ \E i, j \in DOMAIN api[1] :
       /\ api[1][i].ok /\ api[1][i].fails = cfg.max_retries - 1 /\ api[1][i].taken
       /\ api[1][j].fails = cfg.max_retries

\* C10: a terminal status of the group is never changed.
C10_TerminalStatusStable ==
  [][(StatusOf(task_groups)[1] \in TerminalKinds)
       => StatusOf(task_groups') = StatusOf(task_groups)]_vars

\* The run has left stage s behind and gone on to stage s+1.
MovedPast(s) == stage > s \/ stage_inputs[s + 1] # <<>>

NoLaterStageAfterFailure ==
  \A s \in 1..(MaxStages - 1) :
    /\ AllFailed(api[s]) => (StageCalls(s + 1) = 0 /\ ~MovedPast(s))
    /\ MovedPast(s) => SuccessfulTasks(s) # {}

\* C8 as stated: whenever the run ends in a stage whose generation tasks all
\* failed, it ends with the status failed for that stage, and no later
\* stage is ever started without a success.
C8_AllFailedIsFailed ==
  /\ [][(pc # "finally" /\ pc' = "finally" /\ AllFailed(api[stage]))
          => StatusOf(task_groups') = Status("failed", stage)]_vars
  /\ []NoLaterStageAfterFailure

\* C8, amended: the same, for a run that has not observed a cancellation
\* request; a run that observes one writes the status cancelled at that
\* poll, whatever its tasks' results.  In both cases no later stage is
\* started without a success.
C8_FailedUnlessCancelled ==
  /\ [][(pc # "finally" /\ pc' = "finally" /\ AllFailed(api[stage]) /\ ~observed)
          => StatusOf(task_groups') = Status("failed", stage)]_vars
  /\ [][(pc = "cancel_write" /\ pc' # "cancel_write")
          => StatusOf(task_groups') = Status("cancelled", 0)]_vars
  /\ []NoLaterStageAfterFailure

\* The run has ended with the status failed for stage 1 of a plan of two
\* stages, after both tasks of stage 1 failed for good.
W_C8 ==
  /\ pc = "done"
  /\ Len(cfg.stage_plan) = 2
  /\ Len(api[1]) = 2
  /\ AllFailed(api[1])
  /\ ~observed
  /\ StatusOf(task_groups) = Status("failed", 1)

\* The log of the group a poller reads from the registry.
LogOf(tg) == IF Has(tg, G1) /\ Has(tg[G1], "log") THEN tg[G1]["log"] ELSE <<>>

IsPrefix(a, b) == Len(a) <= Len(b) /\ \A k \in 1..Len(a) : a[k] = b[k]

\* C15: the published log only grows: the log before any step is a prefix
\* of the log after it, so the line of request_cancel_all_tasks stays.
C15_LogAppendOnly ==
  [][IsPrefix(LogOf(task_groups), LogOf(task_groups'))]_vars

\* The Asset Store calls and the Generation Service calls in progress.
Calling(futs) == {i \in DOMAIN futs : futs[i].st = "calling"}

CallsInProgress ==
  SumOver([s \in 1..StageSlots |->
             Cardinality(Calling(upl[s])) + Cardinality(Calling(api[s]))],
          1..StageSlots)

\* C17: the Asset Store calls and Generation Service calls of the group that
\* are executing at the same time are at most max_workers, in every stage
\* and in both phases.
C17_WorkerLimit == CallsInProgress <= cfg.max_workers

\* As many calls as workers are executing while a task is waiting for one.
W_C17 ==
  /\ CallsInProgress = cfg.max_workers
  /\ \E i \in DOMAIN api[stage] : api[stage][i].st = "calling"
  /\ \E i \in DOMAIN api[stage] : api[stage][i].st = "queued"

ProgressOf(tg, field) ==
  IF Has(tg, G1) /\ Has(tg[G1], field) THEN tg[G1][field] ELSE ProgressFinished

\* C19: in the upload phase and in the API phase of a stage the published
\* count of completions starts at 0 of the phase's total, grows by exactly
\* one with every completion the loop processes, never exceeds the total,
\* and is the total when the loop ends without a cancellation.
C19_ProgressCounts ==
  /\ [][(pc = "publish_upload" /\ pc' # pc)
          => ProgressOf(task_groups', "upload_progress")
               = <<"progress", stage, 0, Len(unique_images)>>]_vars
  /\ [][(pc = "upload_loop" /\ pc' = "upload_poll")
          => ProgressOf(task_groups', "upload_progress")
               = <<"progress", stage,
                   ProgressOf(task_groups, "upload_progress")[3] + 1,
                   Len(unique_images)>>]_vars
  /\ [][(pc = "upload_loop" /\ pc' = "after_upload")
          => ProgressOf(task_groups, "upload_progress")
               = <<"progress", stage, Len(unique_images), Len(unique_images)>>]_vars
  /\ [][(pc = "publish_api" /\ pc' # pc)
          => ProgressOf(task_groups', "api_progress")
               = <<"progress", stage, 0, Len(api_tasks[stage])>>]_vars
  /\ [][(pc = "api_loop" /\ pc' = "api_poll")
          => ProgressOf(task_groups', "api_progress")
               = <<"progress", stage,
                   ProgressOf(task_groups, "api_progress")[3] + 1,
                   Len(api_tasks[stage])>>]_vars
  /\ [][(pc = "api_loop" /\ pc' \notin {"api_loop", "api_poll"})
          => ProgressOf(task_groups, "api_progress")
               = <<"progress", stage, Len(api_tasks[stage]), Len(api_tasks[stage])>>]_vars
  /\ [][(pc \notin {"pending", "publish_upload", "upload_loop", "publish_api",
                    "api_loop", "complete_write"})
          => /\ ProgressOf(task_groups', "upload_progress")
                 = ProgressOf(task_groups, "upload_progress")
             /\ ProgressOf(task_groups', "api_progress")
                 = ProgressOf(task_groups, "api_progress")]_vars
  /\ [](/\ ProgressOf(task_groups, "upload_progress")[3]
             <= ProgressOf(task_groups, "upload_progress")[4]
        /\ ProgressOf(task_groups, "api_progress")[3]
             <= ProgressOf(task_groups, "api_progress")[4])

\* The API loop of a stage of two tasks has ended without a cancellation
\* and the published count is 2 of 2.
W_C19 ==
  /\ pc \in {"stage_begin", "complete_write"}
  /\ ~observed
  /\ ProgressOf(task_groups, "api_progress")[3] = 2
  /\ ProgressOf(task_groups, "api_progress")[4] = 2
  /\ ProgressOf(task_groups, "upload_progress")[3] = 2

\* The images whose upload was consumed as a success.
UploadedOk(s) == {unique_images[i] : i \in {j \in DOMAIN upl[s] : upl[s][j].ok}}

\* C20 as stated: when every upload of a stage has failed, the run ends with
\* the status failed for that stage.
C20_AllUploadsFailedIsFailed ==
  [][(pc # "finally" /\ pc' = "finally" /\ AllFailed(upl[stage]))
       => StatusOf(task_groups') = Status("failed", stage)]_vars

\* C20, amended: a failed upload stops no other upload of the phase (the
\* loop ends only when every upload has resolved) and is left out of
\* upload_results; when the loop has ended and every upload has failed, the
\* status becomes failed for the stage and the run returns; and whether the
\* run ends failed or cancelled, no generation task of a stage whose uploads
\* all failed is ever dispatched.
C20_FailedUploads ==
  /\ [][(pc = "upload_loop" /\ pc' = "upload_poll")
          => \A i \in DOMAIN upl[stage] :
               (upl'[stage][i].taken /\ ~upl[stage][i].taken)
                 => IF upl[stage][i].ok
                    THEN upload_results'
                           = Put(upload_results, unique_images[i], upl[stage][i].url)
                    ELSE /\ upload_results' = upload_results
                         /\ ~Has(upload_results', unique_images[i])]_vars
  /\ [][(pc = "upload_loop" /\ pc' = "after_upload")
          => /\ AllResolved(upl[stage])
             /\ DOMAIN upload_results = UploadedOk(stage)]_vars
  /\ [][(pc = "after_upload" /\ pc' # pc /\ AllFailed(upl[stage]))
          => /\ StatusOf(task_groups') = Status("failed", stage)
             /\ pc' = "finally"]_vars
  /\ [](\A s \in 1..MaxStages : AllFailed(upl[s]) => api[s] = <<>>)

\* Both uploads of a stage failed, the second after the first, and the run
\* ended failed without a generation call.
W_C20 ==
  /\ pc = "done"
  /\ Len(upl[1]) = 2
  /\ AllFailed(upl[1])
  /\ \A i \in DOMAIN upl[1] : upl[1][i].taken
  /\ ~observed
  /\ api[1] = <<>>
  /\ StatusOf(task_groups) = Status("failed", 1)

\* C21: every generation task of the stage carries the remote references of
\* all the images of its combination, in the combination's order; a
\* combination with an image whose upload failed has no task, and every
\* other combination of the stage has its tasks.
C21_TasksCarryAllReferences ==
  api_tasks[stage] # <<>> =>
    /\ \A k \in DOMAIN api_tasks[stage] :
         LET t == api_tasks[stage][k]
         IN /\ t.combo_idx \in 1..Len(stage_inputs[stage])
            /\ t.source_images = stage_inputs[stage][t.combo_idx].images
            /\ t.cdn_urls = [i \in 1..Len(t.source_images) |-> Url(t.source_images[i])]
    /\ \A c \in 1..Len(stage_inputs[stage]) :
         (\E k \in DOMAIN api_tasks[stage] : api_tasks[stage][k].combo_idx = c)
           <=> \A i \in 1..Len(stage_inputs[stage][c].images) :
                 stage_inputs[stage][c].images[i] \in UploadedOk(stage)

\* Of two combinations one lost its upload: only the other has a task, and
\* its generation call is in progress.
W_C21 ==
  /\ Len(stage_inputs[1]) = 2
  /\ \E i, j \in DOMAIN upl[1] : upl[1][i].ok /\ ~upl[1][j].ok /\ upl[1][j].st = "done"
  /\ api_tasks[1] # <<>>
  /\ \A k \in DOMAIN api_tasks[1] : api_tasks[1][k].combo_idx = 2
  /\ \E k \in DOMAIN api[1] : api[1][k].st = "calling"

\* C26: the prompt of a generation task is the suffix alone when its stage
\* has replace_prompt, and otherwise the prompt carried by its input state
\* joined with the suffix when both are non-empty and the suffix alone when
\* no prompt is carried; so the prompt recorded for an output of a stage
\* that has replace_prompt is one of the suffixes of that stage.
C26_StagePrompt ==
  /\ \A s \in 1..Len(cfg.stage_plan) : \A k \in DOMAIN api_tasks[s] :
       LET t == api_tasks[s][k]
           carried == stage_inputs[s][t.combo_idx].prompt_text
           suffix == cfg.stage_plan[s].suffixes[t.prompt_idx]
       IN /\ cfg.stage_plan[s].replace_prompt => t.prompt = suffix
          /\ (~cfg.stage_plan[s].replace_prompt /\ carried # <<>> /\ suffix # <<>>)
               => t.prompt = carried \o suffix
          /\ (~cfg.stage_plan[s].replace_prompt /\ carried = <<>>)
               => t.prompt = suffix
  /\ \A m \in 1..Len(all_output_files) :
       LET s == all_output_files[m].stage_index
       IN cfg.stage_plan[s].replace_prompt
            => \E p \in 1..Len(cfg.stage_plan[s].suffixes) :
                 all_output_files[m].prompt = cfg.stage_plan[s].suffixes[p]

\* An output of stage 1 was the input of a stage 2 that has replace_prompt,
\* and an output of that stage 2 is in the list.
W_C26 ==
  /\ Len(cfg.stage_plan) = 2
  /\ cfg.stage_plan[2].replace_prompt
  /\ stage_inputs[2] # <<>>
  /\ stage_inputs[2][1].prompt_text # <<>>
  /\ \E m \in 1..Len(all_output_files) : all_output_files[m].stage_index = 2

\* The generation tasks the run has built, as <<stage, position>>.
BuiltTasks == {x \in (1..StageSlots) \X (1..MaxTasks) : x[2] \in DOMAIN api_tasks[x[1]]}

\* C31: two different generation tasks of the run, of the same stage or of
\* two stages, differ in stage, combination index or prompt index and write
\* different files.
C31_DistinctOutputFiles ==
  \A x, y \in BuiltTasks :
    x # y
      => /\ <<x[1], api_tasks[x[1]][x[2]].combo_idx, api_tasks[x[1]][x[2]].prompt_idx>>
              # <<y[1], api_tasks[y[1]][y[2]].combo_idx, api_tasks[y[1]][y[2]].prompt_idx>>
         /\ api_tasks[x[1]][x[2]].output_file # api_tasks[y[1]][y[2]].output_file

\* Both stages have built the task of combination 1 and prompt 1.
W_C31 ==
  /\ \E k \in DOMAIN api_tasks[1] :
       api_tasks[1][k].combo_idx = 1 /\ api_tasks[1][k].prompt_idx = 1
  /\ \E k \in DOMAIN api_tasks[2] :
       api_tasks[2][k].combo_idx = 1 /\ api_tasks[2][k].prompt_idx = 1

\* C32: in every stage, once a generation task has been taken by a worker,
\* every upload of that stage has ended and its completion was processed by
\* the upload loop; and the step that starts a Generation Service call
\* finds no upload of its stage queued or in its Asset Store call.
C32_UploadsBeforeCalls ==
  /\ [](\A s \in 1..StageSlots :
          (\E i \in DOMAIN api[s] : api[s][i].st # "queued")
            => \A j \in DOMAIN upl[s] : upl[s][j].st = "done" /\ upl[s][j].taken)
  /\ [][\A i \in DOMAIN api[stage] :
          (i \in DOMAIN api'[stage]
             /\ api[stage][i].st = "queued" /\ api'[stage][i].st = "calling")
            => Running(upl[stage]) = {} /\ PoolShutDown(upl[stage])]_vars

\* Stage 2 has uploaded its two images and one of its generation tasks is
\* in its Generation Service call.
W_C32 ==
  /\ stage = 2
  /\ Len(upl[2]) = 2
  /\ \E i \in DOMAIN api[2] : api[2][i].st = "calling"

\* The API loop of the last stage has consumed every completion.
LastCompletionProcessed ==
  /\ stage = Len(cfg.stage_plan)
  /\ api[stage] # <<>>
  /\ LoopExhausted(api[stage])

\* C34: once the flag of the group is true while the API loop of the last
\* stage has not yet consumed its last completion, the status of the group
\* is never the completed one afterwards.
C34_CancelledNeverCompletes ==
  []((Has(task_group_cancel_flags, G1) /\ task_group_cancel_flags[G1]
        /\ ~LastCompletionProcessed)
       => [](StatusOf(task_groups) # Status("completed", 0)))

\* The flag became true while the last task of the last stage was in its
\* Generation Service call; the poll after its completion observed the flag
\* and the run has ended with the cancelled status.
W_C34 ==
  /\ pc = "done"
  /\ stage = Len(cfg.stage_plan)
  /\ stage = 2
  /\ cancels = 1
  /\ api[stage] # <<>>
  /\ LoopExhausted(api[stage])
  /\ \A i \in DOMAIN api[stage] : api[stage][i].ok
  /\ observed
  /\ StatusOf(task_groups)[1] = "cancelled"

\* C36: the inputs of a stage are a function of the set of successful tasks
\* of the stage before it: the output of a successful task stands at the
\* position given by the number of successful tasks with a smaller sequence
\* number, whatever the order in which the pool completed them; and the
\* n-th task of the stage has the ordinal n, the images of the input its
\* combination index names, and the file named after its indices.
C36_InputOrderIsSequenceOrder ==
  \A s \in 2..MaxStages :
    stage_inputs[s] # <<>> =>
      /\ \A i \in SuccessfulTasks(s - 1) :
           LET before == {j \in SuccessfulTasks(s - 1) :
                            api_tasks[s - 1][j].sequence < api_tasks[s - 1][i].sequence}
           IN stage_inputs[s][Cardinality(before) + 1] = OutputState(api_tasks[s - 1][i])
      /\ \A n \in DOMAIN api_tasks[s] :
           /\ api_tasks[s][n].sequence = n
           /\ api_tasks[s][n].source_images
                = stage_inputs[s][api_tasks[s][n].combo_idx].images
           /\ api_tasks[s][n].output_file
                = OutputFile(s, api_tasks[s][n].combo_idx, api_tasks[s][n].prompt_idx)
           /\ \A m \in DOMAIN api_tasks[s] :
                m < n => api_tasks[s][m].combo_idx <= api_tasks[s][n].combo_idx

\* The second task of stage 1 completed before the first, both with
\* success, and stage 2 has built its tasks.
W_C36 ==
  /\ Len(all_output_files) >= 2
  /\ Len(api_tasks[1]) >= 2
  /\ all_output_files[1].file = api_tasks[1][2].output_file
  /\ all_output_files[2].file = api_tasks[1][1].output_file
  /\ Len(stage_inputs[2]) = 2
  /\ Len(api_tasks[2]) = 2

\* =========================================================================
\* SpecRegistry: the run of Spec next to a thread in clear_all_outputs
\* =========================================================================
MaxOutputClears == 1

\* Lines 2550-2551: all_output_files.clear() under all_output_files_lock.
ClearOutputFiles ==
  /\ output_clears.pc = "idle"
  /\ output_clears.calls < MaxOutputClears
  /\ all_output_files' = <<>>
  /\ output_clears' = [calls |-> output_clears.calls + 1, pc |-> "metadata"]
  /\ UNCHANGED <<task_group_cancel_flags, task_groups, upload_cache, image_metadata,
                 canceller, orch>>
  /\ UNCHANGED <<retry, uploaders, ok_calls, clears, submissions, form, locks>>

\* Lines 2553-2554: image_metadata.clear() under image_metadata_lock.
ClearMetadata ==
  /\ output_clears.pc = "metadata"
  /\ image_metadata' = EmptyMap
  /\ output_clears' = [output_clears EXCEPT !.pc = "groups"]
  /\ UNCHANGED <<task_group_cancel_flags, task_groups, upload_cache, all_output_files,
                 canceller, orch>>
  /\ UNCHANGED <<retry, uploaders, ok_calls, clears, submissions, form, locks>>

\* Lines 2556-2557: task_groups.clear() under task_groups_lock.
ClearGroups ==
  /\ output_clears.pc = "groups"
  /\ task_groups' = EmptyMap
  /\ output_clears' = [output_clears EXCEPT !.pc = "idle"]
  /\ UNCHANGED <<task_group_cancel_flags, upload_cache, all_output_files, image_metadata,
                 canceller, orch>>
  /\ UNCHANGED <<retry, uploaders, ok_calls, clears, submissions, form, locks>>

\* The runs of one stage for one combination on one worker.
InitRegistry ==
  /\ InitShared
  /\ task_group_cancel_flags = Put(EmptyMap, G1, FALSE)
  /\ InitOrch({c \in Configs : /\ c.max_workers = 1
                                /\ Len(c.initial_combinations) = 1
                                /\ Len(c.stage_plan) = 1},
              "pending")
  /\ InitOthers

NextRegistry == Next \/ ClearOutputFiles \/ ClearMetadata \/ ClearGroups

SpecRegistry == InitRegistry /\ [][NextRegistry]_vars

\* The threads of the program are scheduled: a step of the run, of its
\* workers, or of a cancel-all or clear operation that has begun, is
\* eventually taken; the user need not start a cancel-all or a clear.
SpecLive ==
  /\ SpecRegistry
  /\ WF_vars(NextRegistry /\ cancels' = cancels
                           /\ output_clears'.calls = output_clears.calls)

\* get_current_status, lines 1528-1535: it subscripts the entries it shows
\* with 'status', 'upload_progress' and 'api_progress' and raises KeyError
\* if one of them is missing.
StatusPollFails(tg) ==
  \E g \in DOMAIN tg :
    ~({"status", "upload_progress", "api_progress"} \subseteq DOMAIN tg[g])

\* C16: whatever the interleaving of clear_all_outputs with a running
\* orchestrator, every registry entry has the four fields status,
\* upload_progress, api_progress and log, and get_current_status does not fail.
C16_EntriesComplete ==
  /\ \A g \in DOMAIN task_groups : DOMAIN task_groups[g] = EntryFields
  /\ ~StatusPollFails(task_groups)

\* The successes the API loop has processed, all stages.
ProcessedOk == {<<s, i>> \in (1..StageSlots) \X (1..MaxTasks) :
                  i \in DOMAIN api[s] /\ api[s][i].ok /\ api[s][i].taken}

\* C23: every step that is not the clearing of the list by clear_all_outputs
\* leaves all_output_files as it is or appends to it; the step that
\* processes a completion appends the entry of a success and nothing for a
\* failure; and as long as the list was not cleared it holds exactly one
\* entry for every success processed and no other entry.
C23_OutputsOnlyGrow ==
  /\ [][(output_clears'.calls = output_clears.calls)
          => IsPrefix(all_output_files, all_output_files')]_vars
  /\ [][(pc = "api_loop" /\ pc' = "api_poll"
            /\ output_clears'.calls = output_clears.calls)
          => \A i \in DOMAIN api[stage] :
               (api'[stage][i].taken /\ ~api[stage][i].taken)
                 => IF api[stage][i].ok
                    THEN /\ Len(all_output_files') = Len(all_output_files) + 1
                         /\ all_output_files'[Len(all_output_files')].file
                              = api_tasks[stage][i].output_file
                    ELSE all_output_files' = all_output_files]_vars
  /\ [](output_clears.calls = 0
         => /\ Len(all_output_files) = Cardinality(ProcessedOk)
            /\ \A x \in ProcessedOk :
                 Cardinality({k \in 1..Len(all_output_files) :
                    all_output_files[k].file = api_tasks[x[1]][x[2]].output_file}) = 1)

\* Two successes were processed, the first before the list was cleared and
\* the second after it, and the run was cancelled: the list holds the second.
W_C23 ==
  /\ output_clears.calls = 1
  /\ output_clears.pc = "idle"
  /\ Cardinality(ProcessedOk) = 2
  /\ Len(all_output_files) = 1
  /\ pc = "done"

\* C35: the group reaches the status completed, failed or cancelled, and
\* from some moment on it has no entry in the flag map.
C35_RunTerminates ==
  /\ <>(StatusOf(task_groups)[1] \in TerminalKinds)
  /\ <>[](~Has(task_group_cancel_flags, G1))

\* =========================================================================
\* SpecRetry: one execution of call_banana_api_multi(max_retries)
\* =========================================================================
IdleOrch ==
  /\ task_group_cancel_flags = EmptyMap
  /\ InitOrch({NoRun}, "done")

InitRetry ==
  /\ InitShared
  /\ InitExtras
  /\ IdleOrch
  /\ \E m \in 0..MaxRetryInput :
       retry = [pc |-> IF m >= 1 THEN "attempt" ELSE "returned",
                max_retries |-> m, attempt |-> IF m >= 1 THEN 1 ELSE 0,
                calls |-> 0, sleeps |-> <<>>, outcomes |-> <<>>, result |-> "none"]
  /\ uploaders = EmptyMap
  /\ ok_calls = EmptyMap
  /\ clears = 0
  /\ submissions = EmptyMap

\* Lines 975-983: the loop body starts and calls the Generation Service.
RetryCall ==
  /\ retry.pc = "attempt"
  /\ retry' = [retry EXCEPT !.pc = "calling", !.calls = @ + 1]
  /\ UNCHANGED <<shared, canceller, orch, uploaders, ok_calls, clears, submissions, form, locks, output_clears>>

\* Lines 985-1042: the call has returned an error list, an empty image
\* list or the images, or has raised.
RetryReturn ==
  /\ retry.pc = "calling"
  /\ \E outcome \in AttemptOutcomes :
       LET next == AfterAttempt(outcome, retry.attempt, retry.max_retries)
       IN retry' =
            IF next = "sleep"
            THEN [retry EXCEPT !.pc = "sleeping",
                               !.outcomes = Append(@, outcome),
                               !.sleeps = Append(@, Backoff(retry.attempt))]
            ELSE [retry EXCEPT !.pc = "returned",
                               !.outcomes = Append(@, outcome),
                               !.result = next]
  /\ UNCHANGED <<shared, canceller, orch, uploaders, ok_calls, clears, submissions, form, locks, output_clears>>

\* time.sleep returns; `continue` takes the next value of the range.
RetryWake ==
  /\ retry.pc = "sleeping"
  /\ retry' = [retry EXCEPT !.pc = "attempt", !.attempt = @ + 1]
  /\ UNCHANGED <<shared, canceller, orch, uploaders, ok_calls, clears, submissions, form, locks, output_clears>>

NextRetry == RetryCall \/ RetryReturn \/ RetryWake

SpecRetry == InitRetry /\ [][NextRetry]_vars

FailedAttempts(outcomes) == {k \in 1..Len(outcomes) : outcomes[k] # "ok"}

\* C7: at most max_retries calls; no call after the first successful
\* attempt; a wait of k seconds after failed attempt k when another attempt
\* follows and none after the last attempt; the three kinds of failure are
\* retried alike.
C7_RetryPolicy ==
  /\ retry.calls <= retry.max_retries
  /\ Len(retry.outcomes) = IF retry.pc = "calling" THEN retry.calls - 1 ELSE retry.calls
  /\ \A k \in 1..Len(retry.outcomes) :
       retry.outcomes[k] = "ok" => (k = Len(retry.outcomes) /\ retry.pc = "returned")
  /\ \A k \in 1..Len(retry.sleeps) : retry.sleeps[k] = k
  /\ Len(retry.sleeps) =
       Cardinality(FailedAttempts(retry.outcomes) \ {retry.max_retries})
  /\ retry.pc = "returned" =>
       \/ retry.result = "success" /\ retry.outcomes[Len(retry.outcomes)] = "ok"
       \/ retry.result = "failure" /\ retry.calls = retry.max_retries
            /\ FailedAttempts(retry.outcomes) = 1..retry.max_retries
       \/ retry.result = "none" /\ retry.max_retries = 0

\* Three different failures, two waits of 1 s and 2 s, then nothing more.
W_C7 ==
  /\ retry.pc = "returned"
  /\ retry.max_retries = 3
  /\ retry.outcomes = <<"errors", "empty", "exception">>
  /\ retry.sleeps = <<1, 2>>
  /\ retry.result = "failure"

\* C38: whatever max_retries is, the function returns a result tuple, of a
\* success or of a failure, which the API loop can unpack.
C38_WellFormedResult ==
  retry.pc = "returned" => retry.result \in {"success", "failure"}

\* =========================================================================
\* SpecUpload: the worker threads of all pools of all running groups
\* executing upload_single_image, and clear_upload_cache
\* =========================================================================
UploadThreads == {"w1", "w2"}

UploadPaths == {Source(1), Source(2)}

IdleUploader == [pc |-> "idle", path |-> Source(1), runs |-> 0, last |-> "none",
                 cached_at_start |-> FALSE, cleared |-> FALSE]

InitUpload ==
  /\ InitShared
  /\ InitExtras
  /\ IdleOrch
  /\ retry = NoRetry
  /\ uploaders = [t \in UploadThreads |-> IdleUploader]
  /\ ok_calls = [p \in UploadPaths |-> 0]
  /\ clears = 0
  /\ submissions = EmptyMap

\* A pool hands upload_single_image(path) to the thread.
UploadInvoke(t, path) ==
  /\ uploaders[t].pc = "idle"
  /\ uploaders[t].runs < MaxUploads
  /\ uploaders' = [uploaders EXCEPT ![t] =
       [pc |-> "check", path |-> path, runs |-> @.runs + 1, last |-> "none",
        cached_at_start |-> Has(upload_cache, path), cleared |-> FALSE]]
  /\ UNCHANGED <<shared, canceller, orch, retry, ok_calls, clears, submissions, form, locks, output_clears>>

\* Lines 169-176: the lookup under upload_cache_lock; a hit returns the
\* cached reference, a miss releases the lock and calls the Asset Store.
UploadCheck(t) ==
  /\ uploaders[t].pc = "check"
  /\ uploaders' = [uploaders EXCEPT ![t] =
       IF CacheHit(upload_cache, @.path)
       THEN [@ EXCEPT !.pc = "idle", !.last = "hit"]
       ELSE [@ EXCEPT !.pc = "call"]]
  /\ UNCHANGED <<shared, canceller, orch, retry, ok_calls, clears, submissions, form, locks, output_clears>>

\* Lines 176-188: upload_file_zh returns a reference, returns nothing or
\* raises.
UploadCallReturn(t) ==
  /\ uploaders[t].pc = "call"
  /\ \E outcome \in UploadOutcomes :
       IF outcome = "url"
       THEN /\ uploaders' = [uploaders EXCEPT ![t].pc = "store"]
            /\ ok_calls' = [ok_calls EXCEPT ![uploaders[t].path] = @ + 1]
       ELSE /\ uploaders' = [uploaders EXCEPT ![t].pc = "idle", ![t].last = "failed"]
            /\ UNCHANGED ok_calls
  /\ UNCHANGED <<shared, canceller, orch, retry, clears, submissions, form, locks, output_clears>>

\* Lines 181-183: the reference is written to the cache under the lock.
UploadStore(t) ==
  /\ uploaders[t].pc = "store"
  /\ upload_cache' = CacheStore(upload_cache, uploaders[t].path, Url(uploaders[t].path))
  /\ uploaders' = [uploaders EXCEPT ![t].pc = "idle", ![t].last = "uploaded"]
  /\ UNCHANGED <<task_group_cancel_flags, task_groups, all_output_files, image_metadata,
                 canceller, orch, retry, ok_calls, clears, submissions, form, locks, output_clears>>

\* clear_upload_cache (lines 2299-2304).
ClearUploadCache ==
  /\ clears < MaxClears
  /\ clears' = clears + 1
  /\ upload_cache' = EmptyMap
  /\ ok_calls' = [p \in UploadPaths |-> 0]
  /\ uploaders' = [t \in UploadThreads |->
       IF uploaders[t].pc = "idle" THEN uploaders[t]
       ELSE [uploaders[t] EXCEPT !.cleared = TRUE]]
  /\ UNCHANGED <<task_group_cancel_flags, task_groups, all_output_files, image_metadata,
                 canceller, orch, retry, submissions, form, locks, output_clears>>

NextUpload ==
  \/ \E t \in UploadThreads, path \in UploadPaths : UploadInvoke(t, path)
  \/ \E t \in UploadThreads : UploadCheck(t)
  \/ \E t \in UploadThreads : UploadCallReturn(t)
  \/ \E t \in UploadThreads : UploadStore(t)
  \/ ClearUploadCache

SpecUpload == InitUpload /\ [][NextUpload]_vars

\* C5 as stated: between two clears the Asset Store is called successfully
\* at most once for every path, also when uploads of the path overlap.
C5_AtMostOneStoreCall == \A p \in UploadPaths : ok_calls[p] <= 1

\* C5, amended: an upload of a path that starts while the path is in the
\* cache, with no clear since, never calls the Asset Store; only uploads
\* that overlap an upload of the same path still in progress can call it
\* again, so a path is uploaded at most once per thread between two clears.
C5_CachedPathNotReuploaded ==
  /\ \A t \in UploadThreads :
       (uploaders[t].pc \in {"call", "store"} \/ uploaders[t].last \in {"uploaded", "failed"})
          => (~uploaders[t].cached_at_start \/ uploaders[t].cleared)
  /\ \A p \in UploadPaths : ok_calls[p] <= Cardinality(UploadThreads)

\* A second upload of an uploaded path has returned the cached reference
\* without a second Asset Store call.
W_C5 ==
  \E t \in UploadThreads :
    /\ uploaders[t].pc = "idle"
    /\ uploaders[t].last = "hit"
    /\ uploaders[t].cached_at_start
    /\ clears = 0
    /\ ok_calls[uploaders[t].path] = 1

\* C37: a path in the cache is mapped to the non-empty reference the Asset
\* Store returns for that path; the cache changes only when it is cleared
\* or when a thread whose Asset Store call returned a reference stores it
\* under the path it uploaded; the return of a call that failed leaves the
\* cache as it is and stores nothing later; and a lookup that finds the
\* path in the cache returns without an Asset Store call.
C37_CacheHoldsReturnedReferences ==
  /\ [](\A p \in DOMAIN upload_cache :
          upload_cache[p] = Url(p) /\ upload_cache[p] # <<>>)
  /\ [][upload_cache' # upload_cache
          => \/ upload_cache' = EmptyMap /\ clears' = clears + 1
             \/ \E t \in UploadThreads :
                  /\ uploaders[t].pc = "store"
                  /\ uploaders'[t].last = "uploaded"
                  /\ DOMAIN upload_cache' = DOMAIN upload_cache \cup {uploaders[t].path}
                  /\ \A p \in DOMAIN upload_cache \ {uploaders[t].path} :
                       upload_cache'[p] = upload_cache[p]]_vars
  /\ [][\A t \in UploadThreads :
          (uploaders[t].pc = "call" /\ uploaders'[t].last = "failed")
            => upload_cache' = upload_cache /\ uploaders'[t].pc = "idle"]_vars
  /\ [][\A t \in UploadThreads :
          (uploaders[t].pc = "check" /\ uploaders'[t].pc # "check"
             /\ Has(upload_cache, uploaders[t].path))
            => /\ uploaders'[t].pc = "idle"
               /\ uploaders'[t].last = "hit"
               /\ ok_calls' = ok_calls]_vars

\* The upload of a path has failed and left it out of the cache, and the
\* upload of the other path has stored its reference.
W_C37 ==
  \E t, u \in UploadThreads :
    /\ uploaders[t].pc = "idle"
    /\ uploaders[t].last = "failed"
    /\ ~Has(upload_cache, uploaders[t].path)
    /\ uploaders[u].last = "uploaded"
    /\ Has(upload_cache, uploaders[u].path)
    /\ uploaders[u].path = Source(2)
    /\ clears = 0

\* =========================================================================
\* SpecFlags: the entry points that register a group for cancellation, the
\* background runs that clear the flag, and request_cancel_all_tasks
\* =========================================================================
FlagGroups == {"g1", "g2"}

\* batch_generate_flexible, batch_generate, the two modes of
\* batch_generate_unified, and redo_selected_image.
EntryPoints == {"flexible", "batch", "unified_single", "unified_multi", "redo"}

\* The entry points that call register_task_group_for_cancel (lines 1094,
\* 1360, 1446); redo_selected_image starts its thread without the call.
Registers(entry) == entry # "redo"

NotSubmitted == [entry |-> "none", pc |-> "new", outcome |-> "none"]

InitFlags ==
  /\ InitShared
  /\ InitExtras
  /\ IdleOrch
  /\ retry = NoRetry
  /\ uploaders = EmptyMap
  /\ ok_calls = EmptyMap
  /\ clears = 0
  /\ submissions = [g \in FlagGroups |-> NotSubmitted]

register_task_group_for_cancel(flags, gid) == Put(flags, gid, FALSE)

\* Where an entry point checks that images were given: batch_generate
\* (line 1060) and batch_generate_flexible (line 1337) before the group is
\* registered, batch_generate_unified (lines 1450 and 1493) after it.
RegistersBeforeImageCheck(entry) == entry \in {"unified_single", "unified_multi"}

\* One submission: the validation of the form, register_task_group_for_cancel
\* and thread.start(), or an early return with an error message.
Submit(g, entry, form_ok, images_ok) ==
  /\ submissions[g].pc = "new"
  /\ IF ~form_ok \/ (~images_ok /\ ~RegistersBeforeImageCheck(entry))
     THEN /\ submissions' = [submissions EXCEPT ![g] =
                [entry |-> entry, pc |-> "rejected", outcome |-> "none"]]
          /\ UNCHANGED task_group_cancel_flags
     ELSE /\ task_group_cancel_flags' =
                IF Registers(entry)
                THEN register_task_group_for_cancel(task_group_cancel_flags, g)
                ELSE task_group_cancel_flags
          /\ submissions' = [submissions EXCEPT ![g] =
                [entry |-> entry, pc |-> IF images_ok THEN "pending" ELSE "rejected",
                 outcome |-> "none"]]
  /\ UNCHANGED <<task_groups, upload_cache, all_output_files, image_metadata, canceller,
                 orch, retry, uploaders, ok_calls, clears, form, locks, output_clears>>

\* The background thread starts and creates the registry entry of the group
\* (lines 282-288, 485-491, 697-703).
RunBegin(g) ==
  /\ submissions[g].pc = "pending"
  /\ submissions' = [submissions EXCEPT ![g].pc = "running"]
  /\ task_groups' = Put(task_groups, g,
        NewEntry(Status("waiting", 0), Progress(0, 0, 0), Progress(0, 0, 0),
                 AppendLine(<<>>)))
  /\ UNCHANGED <<task_group_cancel_flags, upload_cache, all_output_files, image_metadata,
                 canceller, orch, retry, uploaders, ok_calls, clears, form, locks, output_clears>>

RunOutcomes == {"completed", "failed", "cancelled", "exception"}

\* The except clause of a run. error_msg is the status and the log line.
\* process_flexible_combinations_async (lines 955-962) appends it to
\* task_groups[group_id].get('log', []); process_task_group_async and
\* process_multi_group_async (lines 444-447, 652-655) subscript
\* task_groups[group_id]['log'], which raises KeyError out of the clause
\* when the entry has no log.
ExceptClause(tg, g, entry) ==
  LET marked == SetField(tg, g, "status", Status("exception", 0))
  IN IF Has(marked[g], "log")
     THEN WriteLog(marked, g, Append(marked[g]["log"], Status("exception", 0)))
     ELSE IF entry \in {"flexible", "redo"}
     THEN WriteLog(marked, g, <<Status("exception", 0)>>)
     ELSE marked

\* The body of the try statement ends: by a return after a positive poll,
\* by a return after a failure, by running to its end, or by an exception
\* that the except clause turns into a failed status.
RunEnd(g, outcome) ==
  /\ submissions[g].pc = "running"
  /\ outcome = "cancelled" => is_task_group_cancelled(task_group_cancel_flags, g)
  /\ submissions' = [submissions EXCEPT ![g].pc = "finally", ![g].outcome = outcome]
  /\ task_groups' = IF outcome = "exception"
                    THEN ExceptClause(task_groups, g, submissions[g].entry)
                    ELSE SetField(task_groups, g, "status", Status(outcome, 0))
  /\ UNCHANGED <<task_group_cancel_flags, upload_cache, all_output_files, image_metadata,
                 canceller, orch, retry, uploaders, ok_calls, clears, form, locks, output_clears>>

\* The finally clause (lines 448-449, 656-657, 963-964).
RunFinally(g) ==
  /\ submissions[g].pc = "finally"
  /\ task_group_cancel_flags' = clear_task_group_cancel_flag(task_group_cancel_flags, g)
  /\ submissions' = [submissions EXCEPT ![g].pc = "ended"]
  /\ UNCHANGED <<task_groups, upload_cache, all_output_files, image_metadata, canceller,
                 orch, retry, uploaders, ok_calls, clears, form, locks, output_clears>>

NextFlags ==
  \/ \E g \in FlagGroups, entry \in EntryPoints, form_ok, images_ok \in BOOLEAN :
       Submit(g, entry, form_ok, images_ok)
  \/ \E g \in FlagGroups : RunBegin(g)
  \/ \E g \in FlagGroups, outcome \in RunOutcomes : RunEnd(g, outcome)
  \/ \E g \in FlagGroups : RunFinally(g)
  \/ RequestCancelFlags
  \/ RequestCancelMark
  \/ ClearOutputFiles
  \/ ClearMetadata
  \/ ClearGroups

SpecFlags == InitFlags /\ [][NextFlags]_vars

\* C9: a group id has a cancellation flag only while its background run is
\* pending or running; after the run has ended in any way, or the submission
\* was rejected, the flag map has no entry for it.
C9_NoFlagLeak ==
  \A g \in FlagGroups :
    Has(task_group_cancel_flags, g) =>
      submissions[g].pc \in {"pending", "running", "finally"}

\* C14: every group whose background run is pending or in progress has an
\* entry in the flag map, whichever entry point started it, so that
\* request_cancel_all_tasks reaches it.
C14_RunningGroupHasFlag ==
  \A g \in FlagGroups :
    submissions[g].pc \in {"pending", "running"} => Has(task_group_cancel_flags, g)

\* C22: when an exception escapes the body of a run, the status of the
\* group becomes the failed status that carries the exception text, the text
\* is the new last line of the group's log, and the finally clause removes
\* the cancellation flag; the submitting call has returned before.
C22_ExceptionBecomesFailed ==
  /\ [][\A g \in FlagGroups :
          (submissions[g].pc = "running" /\ submissions'[g].pc = "finally"
             /\ submissions'[g].outcome = "exception")
            => /\ task_groups'[g]["status"] = Status("exception", 0)
               /\ Has(task_groups'[g], "log")
               /\ task_groups'[g]["log"]
                    = Append(IF Has(task_groups, g) /\ Has(task_groups[g], "log")
                             THEN task_groups[g]["log"] ELSE <<>>,
                             Status("exception", 0))]_vars
  /\ [][\A g \in FlagGroups :
          (submissions[g].pc = "finally" /\ submissions'[g].pc = "ended")
            => ~Has(task_group_cancel_flags', g)]_vars

FlagSet(flags, g) == Has(flags, g) /\ flags[g]

\* C13: a call of request_cancel_all_tasks sets the flag of every group that
\* is registered when it takes task_group_cancel_lock and returns exactly
\* those ids; no other step sets a flag, so a group registered after the
\* call keeps a false flag, and the call marks the registry entries of the
\* ids it returns only.
C13_CancelAllSnapshot ==
  /\ [][(cancels' = cancels + 1)
          => /\ targets' = DOMAIN task_group_cancel_flags
             /\ DOMAIN task_group_cancel_flags' = DOMAIN task_group_cancel_flags
             /\ \A g \in DOMAIN task_group_cancel_flags :
                  task_group_cancel_flags'[g]]_vars
  /\ [][(cancels' = cancels)
          => \A g \in FlagGroups :
               FlagSet(task_group_cancel_flags', g)
                 => FlagSet(task_group_cancel_flags, g)]_vars
  /\ [][(cancel_pc = "mark" /\ cancel_pc' = "idle")
          => \A g \in FlagGroups \ targets :
               /\ Has(task_groups', g) = Has(task_groups, g)
               /\ Has(task_groups, g) => task_groups'[g] = task_groups[g]]_vars

\* A call has set the flag of the group that was registered and returned its
\* id; the group registered afterwards has a false flag.
W_C13 ==
  /\ cancels = 1
  /\ targets = {"g1"}
  /\ FlagSet(task_group_cancel_flags, "g1")
  /\ Has(task_group_cancel_flags, "g2")
  /\ ~task_group_cancel_flags["g2"]

\* =========================================================================
\* SpecSubmit: one form submitted to batch_generate_flexible, the plan and
\* the statistics derived from it, and its run with a single worker when
\* every upload and every generation call succeeds at the first attempt
\* =========================================================================
\* Of the five pages of the form the first two are filled; an empty page is
\* dropped by calculate_image_combinations.
FilledPages == {1, 2}

\* "相乘" and "相加".
Modes == {"multiply", "add"}

\* A blank line of a prompt text; its other lines are <<g, k>>, the k-th
\* prompt of group g.
BlankLine == <<0, 0>>

\* itertools.product over a list of lists of lists, every tuple merged into
\* one list: the first source varies slowest.
RECURSIVE MergedProduct(_)
MergedProduct(sources) ==
  IF sources = <<>> THEN << <<>> >>
  ELSE LET head == Head(sources)
           rest == MergedProduct(Tail(sources))
       IN [k \in 1..(Len(head) * Len(rest)) |->
             head[((k - 1) \div Len(rest)) + 1] \o rest[((k - 1) % Len(rest)) + 1]]

\* Mutation: every element is an option of its own, whatever the mode.
OptionsAlwaysSplit(items, mode) == [k \in 1..Len(items) |-> <<items[k]>>]

\* One option per element (multiply) or the whole list as one option (add).
Options(items, mode) ==
  IF mode = "multiply" THEN [k \in 1..Len(items) |-> <<items[k]>>] ELSE <<items>>

RECURSIVE KeepNonEmpty(_, _)
KeepNonEmpty(seq, field) ==
  IF seq = <<>> THEN <<>>
  ELSE IF Head(seq)[field] = <<>> THEN KeepNonEmpty(Tail(seq), field)
  ELSE <<Head(seq)>> \o KeepNonEmpty(Tail(seq), field)

\* calculate_image_combinations: the pages without images are dropped, the
\* product of the others is taken.
calculate_image_combinations(pages_data) ==
  LET valid_pages == KeepNonEmpty(pages_data, "images")
  IN IF valid_pages = <<>> THEN <<>>
     ELSE MergedProduct([p \in 1..Len(valid_pages) |->
                           Options(valid_pages[p].images, valid_pages[p].mode)])

\* line.strip() for the lines of a text, blank lines dropped.
RECURSIVE StrippedLines(_)
StrippedLines(text) ==
  IF text = <<>> THEN <<>>
  ELSE IF Head(text) = BlankLine THEN StrippedLines(Tail(text))
  ELSE <<Head(text)>> \o StrippedLines(Tail(text))

\* parse_prompt_groups without its errors: the groups that have prompts.
ParsedGroups(raw_groups) ==
  KeepNonEmpty([g \in 1..Len(raw_groups) |->
                  [index |-> g, prompts |-> StrippedLines(raw_groups[g].text),
                   mode |-> raw_groups[g].mode, inherit |-> raw_groups[g].inherit]],
               "prompts")

\* Mutation: the first group that has prompts may inherit.
ParseErrorFirstMayInherit(raw_groups) ==
  \/ \E g \in 1..Len(raw_groups) :
       StrippedLines(raw_groups[g].text) = <<>> /\ raw_groups[g].inherit
  \/ ParsedGroups(raw_groups) = <<>>

\* The three ValueErrors of parse_prompt_groups.
ParseError(raw_groups) ==
  \/ \E g \in 1..Len(raw_groups) :
       StrippedLines(raw_groups[g].text) = <<>> /\ raw_groups[g].inherit
  \/ ParsedGroups(raw_groups) = <<>>
  \/ ParsedGroups(raw_groups)[1].inherit

\* generate_prompt_suffixes_from_groups: a suffix is the ", "-join of one
\* option of every group of the stage.
generate_prompt_suffixes_from_groups(groups) ==
  LET with_prompts == KeepNonEmpty(groups, "prompts")
  IN IF with_prompts = <<>> THEN <<>>
     ELSE MergedProduct([g \in 1..Len(with_prompts) |->
                           Options(with_prompts[g].prompts, with_prompts[g].mode)])

\* Mutation: every group is a stage of its own.
RECURSIVE StageGroupsSingle(_, _, _)
StageGroupsSingle(prompt_groups, current, acc) ==
  IF prompt_groups = <<>> THEN acc
  ELSE StageGroupsSingle(Tail(prompt_groups), current, Append(acc, <<Head(prompt_groups)>>))

\* The first loop of build_pipeline_plan: an inheriting group closes the
\* stage collected so far and is a stage of its own.
RECURSIVE StageGroups(_, _, _)
StageGroups(prompt_groups, current, acc) ==
  IF prompt_groups = <<>>
  THEN IF current = <<>> THEN acc ELSE Append(acc, current)
  ELSE IF Head(prompt_groups).inherit
  THEN StageGroups(Tail(prompt_groups), <<>>,
         Append(IF current = <<>> THEN acc ELSE Append(acc, current),
                <<Head(prompt_groups)>>))
  ELSE StageGroups(Tail(prompt_groups), Append(current, Head(prompt_groups)), acc)

\* Mutation: every inheriting stage replaces the prompt, whatever its mode.
RECURSIVE PlanStagesReplacing(_, _)
PlanStagesReplacing(stage_groups, acc) ==
  IF stage_groups = <<>> THEN acc
  ELSE LET groups == Head(stage_groups)
           suffixes == generate_prompt_suffixes_from_groups(groups)
       IN IF suffixes = <<>> THEN PlanStagesReplacing(Tail(stage_groups), acc)
          ELSE PlanStagesReplacing(Tail(stage_groups),
                 Append(acc,
                   [stage_index |-> Len(acc) + 1,
                    groups |-> groups,
                    suffixes |-> suffixes,
                    replace_prompt |-> \E g \in 1..Len(groups) : groups[g].inherit]))

\* The second loop of build_pipeline_plan: the stages that have suffixes,
\* numbered from 1.
RECURSIVE PlanStages(_, _)
PlanStages(stage_groups, acc) ==
  IF stage_groups = <<>> THEN acc
  ELSE LET groups == Head(stage_groups)
           suffixes == generate_prompt_suffixes_from_groups(groups)
           inherit_stage == \E g \in 1..Len(groups) : groups[g].inherit
       IN IF suffixes = <<>> THEN PlanStages(Tail(stage_groups), acc)
          ELSE PlanStages(Tail(stage_groups),
                 Append(acc,
                   [stage_index |-> Len(acc) + 1,
                    groups |-> groups,
                    suffixes |-> suffixes,
                    replace_prompt |->
                      inherit_stage
                        /\ \A g \in 1..Len(groups) : groups[g].mode = "multiply"]))

build_pipeline_plan(prompt_groups) ==
  PlanStages(StageGroups(prompt_groups, <<>>, <<>>), <<>>)

\* Mutation: every stage is counted with the initial number of inputs.
RECURSIVE StatisticsFromInitial(_, _, _, _)
StatisticsFromInitial(stage_plan, s, current_inputs, total_tasks) ==
  IF s > Len(stage_plan) THEN total_tasks
  ELSE StatisticsFromInitial(stage_plan, s + 1, current_inputs,
         total_tasks + current_inputs * Len(stage_plan[s].suffixes))

\* The loop of compute_pipeline_statistics from stage s on.
RECURSIVE StatisticsFrom(_, _, _, _)
StatisticsFrom(stage_plan, s, current_inputs, total_tasks) ==
  IF s > Len(stage_plan) THEN total_tasks
  ELSE LET stage_tasks == current_inputs * Len(stage_plan[s].suffixes)
       IN StatisticsFrom(stage_plan, s + 1,
            IF stage_tasks > 0 THEN stage_tasks ELSE current_inputs,
            total_tasks + stage_tasks)

\* total_tasks of compute_pipeline_statistics.
compute_pipeline_statistics(initial_combo_count, stage_plan) ==
  StatisticsFrom(stage_plan, 1, initial_combo_count, 0)

\* ------------------------------------------------------------- the form
MaxLines == 3

MaxImages == 2

\* The forms a user can submit, run by one worker: group g has n[g] prompt
\* lines, after a blank first line if padded, page p has m[p] images. The
\* mode of an empty prompt box is never read and the mode of a page of less
\* than two images makes no difference to its options: both are fixed.
Forms ==
  {f \in
     {[pc |-> "filled",
       raw_prompt_groups |->
         [g \in 1..PromptGroupCount |->
            [text |-> (IF padded THEN <<BlankLine>> ELSE <<>>)
                        \o [k \in 1..n[g] |-> <<g, k>>],
             mode |-> gm[g], inherit |-> inh[g]]],
       pages_data |->
         [p \in 1..Cardinality(FilledPages) |->
            [images |-> [i \in 1..m[p] |-> Source(10 * p + i)], mode |-> pm[p]]],
       max_workers |-> 1,
       total_tasks |-> 0,
       message |-> "none"] :
        n \in {c \in [1..PromptGroupCount -> 0..MaxLines] :
                 SumOver(c, DOMAIN c) <= MaxLines},
        padded \in BOOLEAN,
        gm \in [1..PromptGroupCount -> Modes],
        inh \in [1..PromptGroupCount -> BOOLEAN],
        m \in {c \in [FilledPages -> 0..MaxImages] :
                 SumOver(c, DOMAIN c) <= MaxImages},
        pm \in [FilledPages -> Modes]} :
     /\ \A g \in 1..PromptGroupCount :
          StrippedLines(f.raw_prompt_groups[g].text) = <<>>
            => f.raw_prompt_groups[g].mode = "multiply"
     /\ \A p \in 1..Cardinality(FilledPages) :
          Len(f.pages_data[p].images) < 2 => f.pages_data[p].mode = "multiply"}

\* The checks of batch_generate_flexible in their order: the message it
\* returns, "none" if the form is accepted.
SubmitError(f, key_ok, dir_ok) ==
  IF ~key_ok THEN "no_key"
  ELSE IF ~dir_ok THEN "no_output_dir"
  ELSE IF ParseError(f.raw_prompt_groups) THEN "bad_prompt_groups"
  ELSE IF calculate_image_combinations(f.pages_data) = <<>> THEN "no_images"
  ELSE IF build_pipeline_plan(ParsedGroups(f.raw_prompt_groups)) = <<>> THEN "no_plan"
  ELSE IF compute_pipeline_statistics(
            Len(calculate_image_combinations(f.pages_data)),
            build_pipeline_plan(ParsedGroups(f.raw_prompt_groups))) = 0
  THEN "no_tasks"
  ELSE "none"

\* Mutation: the group is registered before the form is validated.
FlagsAfterSubmitEarly(flags, gid, error) == register_task_group_for_cancel(flags, gid)

\* Line 1360 is reached only by an accepted form.
FlagsAfterSubmit(flags, gid, error) ==
  IF error = "none" THEN register_task_group_for_cancel(flags, gid) ELSE flags

InitSubmit ==
  /\ InitShared
  /\ task_group_cancel_flags = EmptyMap
  /\ InitOrch({NoRun}, "unsubmitted")
  /\ form \in Forms
  /\ locks = NoLocks
  /\ output_clears = NoClears
  /\ retry = NoRetry
  /\ uploaders = EmptyMap
  /\ ok_calls = EmptyMap
  /\ clears = 0
  /\ submissions = EmptyMap

\* batch_generate_flexible: the form is rejected with a message, or the
\* group is registered for cancellation and its thread is started.
SubmitFlexible(key_ok, dir_ok) ==
  /\ form.pc = "filled"
  /\ LET error == SubmitError(form, key_ok, dir_ok)
         combinations == calculate_image_combinations(form.pages_data)
         stage_plan == build_pipeline_plan(ParsedGroups(form.raw_prompt_groups))
     IN /\ task_group_cancel_flags' = FlagsAfterSubmit(task_group_cancel_flags, G1, error)
        /\ IF error # "none"
           THEN /\ form' = [form EXCEPT !.pc = "rejected", !.message = error]
                /\ UNCHANGED <<cfg, pc>>
           ELSE /\ form' = [form EXCEPT
                     !.pc = "submitted",
                     !.total_tasks =
                        compute_pipeline_statistics(Len(combinations), stage_plan)]
                /\ cfg' = [initial_combinations |-> combinations,
                           stage_plan |-> stage_plan,
                           max_workers |-> form.max_workers,
                           max_retries |-> 1]
                /\ pc' = "pending"
  /\ UNCHANGED <<task_groups, upload_cache, all_output_files, image_metadata, canceller,
                 ret, stage, current_states, unique_images, upl, api_tasks, api,
                 uploaded, upload_results, api_completed, stage_success_outputs,
                 stage_inputs, first_check, observed, log_messages>>
  /\ UNCHANGED <<retry, uploaders, ok_calls, clears, submissions, locks, output_clears>>

\* The run takes the steps of Spec; every Asset Store call returns a
\* reference and every Generation Service call an image.
NextSubmit ==
  \/ \E key_ok, dir_ok \in BOOLEAN : SubmitFlexible(key_ok, dir_ok)
  \/ RunInit
  \/ StageBegin
  \/ PublishUpload
  \/ PreUpload
  \/ \E i \in 1..Len(unique_images) : UploadStart(i)
  \/ \E i \in 1..Len(unique_images) : UploadReturn(i) /\ upl'[stage][i].ok
  \/ \E i \in 1..Len(unique_images) : UploadConsume(i)
  \/ UploadPoll
  \/ UploadLoopEnd
  \/ AfterUpload
  \/ PublishApi
  \/ \E i \in DOMAIN api[stage] : ApiStart(i)
  \/ \E i \in DOMAIN api[stage] : ApiReturn(i) /\ api'[stage][i].ok
  \/ \E i \in DOMAIN api[stage] : ApiConsume(i)
  \/ ApiPoll
  \/ ApiLoopEnd
  \/ CompleteWrite
  \/ Finally

SpecSubmit == InitSubmit /\ [][NextSubmit]_vars

\* The generation tasks the run has handed to its pools, all stages.
Dispatched == SumOver([s \in 1..StageSlots |-> Len(api[s])], 1..StageSlots)

\* C11: when every upload and every generation call succeeds, the number of
\* tasks compute_pipeline_statistics announced at submission is the number of
\* generation tasks the run dispatched over all its stages, and the number of
\* outputs it produced.
C11_StatisticsMatchDispatch ==
  (form.pc = "submitted" /\ pc = "done")
    => /\ Dispatched = form.total_tasks
       /\ Len(all_output_files) = form.total_tasks

\* Two assets on a multiply page and one multiply group of three prompts:
\* six tasks announced, six dispatched, six outputs.
W_C11 ==
  /\ form.pc = "submitted"
  /\ pc = "done"
  /\ Len(cfg.initial_combinations) = 2
  /\ Len(cfg.stage_plan) = 1
  /\ Len(cfg.stage_plan[1].suffixes) = 3
  /\ form.total_tasks = 6
  /\ Dispatched = 6
  /\ Len(all_output_files) = 6

\* C12: a submission batch_generate_flexible rejects changes nothing that is
\* shared: no cancellation flag, no registry entry, no output, no thread.
C12_RejectLeavesStateUnchanged ==
  [][(form.pc = "filled" /\ form'.pc = "rejected")
       => /\ UNCHANGED <<shared, canceller, orch>>
          /\ pc = "unsubmitted"
          /\ task_group_cancel_flags' = EmptyMap
          /\ task_groups' = EmptyMap]_vars

\* Every kind of rejection has happened on some behaviour.
W_C12 ==
  /\ form.pc = "rejected"
  /\ form.message = "no_images"
  /\ task_group_cancel_flags = EmptyMap
  /\ task_groups = EmptyMap
  /\ pc = "unsubmitted"

\* The pages of the form that have images and are in multiply mode.
MultiplyPages(f) ==
  {p \in 1..Len(f.pages_data) :
     f.pages_data[p].images # <<>> /\ f.pages_data[p].mode = "multiply"}

\* C33: the first click on generate of a form with two or more image pages
\* in multiply mode starts no background run.
C33_SecondConfirmation ==
  [][(form.pc = "filled" /\ Cardinality(MultiplyPages(form)) >= 2)
       => (form'.pc # "submitted" /\ pc' # "pending"
             /\ task_group_cancel_flags' = task_group_cancel_flags)]_vars

\* =========================================================================
\* SpecLocks: the threads of the program walking through their critical
\* sections and their network calls
\* =========================================================================
\* Lines 48-60: the five locks.
LockNames == {"task_groups_lock", "all_output_files_lock", "image_metadata_lock",
              "task_group_cancel_lock", "upload_cache_lock"}

\* One thread for each of: a flexible run of one stage with one upload and
\* one task, a pool worker in upload_single_image, a pool worker in
\* call_banana_api_multi, and the handlers request_cancel_all_tasks,
\* clear_all_outputs, get_current_status and clear_upload_cache.
LockThreads == {"run", "upload", "generate", "cancel_all", "clear_outputs",
                "status", "clear_cache"}

\* "with lock: ..." around a body of steps.
With(lock, body) == << <<"acquire", lock>> >> \o body \o << <<"release", lock>> >>

\* A call of the Asset Store or of the Generation Service.
NetworkCall(service) == << <<"call", service>> >>

\* Mutation: upload_single_image calls the Asset Store inside the block
\* that looks the cache up.
UploadStepsUnderLock ==
  With("upload_cache_lock", NetworkCall("asset_store"))
    \o With("upload_cache_lock", <<>>)

\* upload_single_image, lines 169, 176, 181.
UploadSteps ==
  With("upload_cache_lock", <<>>) \o NetworkCall("asset_store")
    \o With("upload_cache_lock", <<>>)

\* The lock blocks and network calls of the threads in program order:
\* call_banana_api_multi, lines 978, 1029; request_cancel_all_tasks, lines
\* 91, 98; clear_all_outputs, lines 2550, 2553, 2556; get_current_status,
\* lines 1528, 1538, 1558; clear_upload_cache, line 2301; and
\* batch_generate_flexible at line 1360 (73) followed by
\* process_flexible_combinations_async at lines 697, 712 (85), 772, 779 (85),
\* 801, 805 (85), 864 (85), 871, 915, 921, 925 (85), 945, 949 and 964 (79).
ThreadSteps ==
  [thread \in LockThreads |->
     CASE thread = "upload" -> UploadSteps
       [] thread = "generate" ->
            NetworkCall("generation_service") \o With("image_metadata_lock", <<>>)
       [] thread = "cancel_all" ->
            With("task_group_cancel_lock", <<>>) \o With("task_groups_lock", <<>>)
       [] thread = "clear_outputs" ->
            With("all_output_files_lock", <<>>) \o With("image_metadata_lock", <<>>)
              \o With("task_groups_lock", <<>>)
       [] thread = "status" ->
            With("task_groups_lock", <<>>) \o With("all_output_files_lock", <<>>)
              \o With("task_groups_lock", <<>>)
       [] thread = "clear_cache" -> With("upload_cache_lock", <<>>)
       [] OTHER ->
            With("task_group_cancel_lock", <<>>) \o With("task_groups_lock", <<>>)
              \o With("task_group_cancel_lock", <<>>) \o With("task_groups_lock", <<>>)
              \o With("task_group_cancel_lock", <<>>) \o With("task_groups_lock", <<>>)
              \o With("task_group_cancel_lock", <<>>)
              \o With("task_group_cancel_lock", <<>>)
              \o With("task_groups_lock", <<>>) \o With("all_output_files_lock", <<>>)
              \o With("task_groups_lock", <<>>) \o With("task_group_cancel_lock", <<>>)
              \o With("task_groups_lock", <<>>) \o With("task_groups_lock", <<>>)
              \o With("task_group_cancel_lock", <<>>)]

StepsOf(thread) == ThreadSteps[thread]

\* threading.Lock is not reentrant: held is the list of the locks a thread
\* has acquired and not released.
InitLocks ==
  /\ InitShared
  /\ task_group_cancel_flags = EmptyMap
  /\ IdleOrch
  /\ retry = NoRetry
  /\ uploaders = EmptyMap
  /\ ok_calls = EmptyMap
  /\ clears = 0
  /\ submissions = EmptyMap
  /\ form = NoForm
  /\ output_clears = NoClears
  /\ locks = [owner |-> [l \in LockNames |-> "free"],
              threads |-> [t \in LockThreads |->
                             [pos |-> 1, in_call |-> FALSE, held |-> <<>>]]]

ThreadDone(t) == locks.threads[t].pos > Len(StepsOf(t))

NextStep(t) == StepsOf(t)[locks.threads[t].pos]

\* The thread waits in Lock.acquire().
Blocked(t) ==
  /\ ~ThreadDone(t)
  /\ ~locks.threads[t].in_call
  /\ NextStep(t)[1] = "acquire"
  /\ locks.owner[NextStep(t)[2]] # "free"

\* Lock.__enter__
Acquire(t) ==
  /\ ~ThreadDone(t)
  /\ NextStep(t)[1] = "acquire"
  /\ locks.owner[NextStep(t)[2]] = "free"
  /\ locks' = [owner |-> [locks.owner EXCEPT ![NextStep(t)[2]] = t],
               threads |-> [locks.threads EXCEPT
                  ![t] = [pos |-> @.pos + 1, in_call |-> FALSE,
                          held |-> Append(@.held, NextStep(t)[2])]]]
  /\ UNCHANGED <<shared, canceller, orch>>
  /\ UNCHANGED <<retry, uploaders, ok_calls, clears, submissions, form, output_clears>>

\* Lock.__exit__
Release(t) ==
  /\ ~ThreadDone(t)
  /\ NextStep(t)[1] = "release"
  /\ locks' = [owner |-> [locks.owner EXCEPT ![NextStep(t)[2]] = "free"],
               threads |-> [locks.threads EXCEPT
                  ![t] = [pos |-> @.pos + 1, in_call |-> FALSE,
                          held |-> SelectSeq(@.held, LAMBDA l : l # NextStep(t)[2])]]]
  /\ UNCHANGED <<shared, canceller, orch>>
  /\ UNCHANGED <<retry, uploaders, ok_calls, clears, submissions, form, output_clears>>

\* The request is sent.
CallBegin(t) ==
  /\ ~ThreadDone(t)
  /\ NextStep(t)[1] = "call"
  /\ ~locks.threads[t].in_call
  /\ locks' = [locks EXCEPT !.threads[t].in_call = TRUE]
  /\ UNCHANGED <<shared, canceller, orch>>
  /\ UNCHANGED <<retry, uploaders, ok_calls, clears, submissions, form, output_clears>>

\* The response has arrived.
CallEnd(t) ==
  /\ ~ThreadDone(t)
  /\ NextStep(t)[1] = "call"
  /\ locks.threads[t].in_call
  /\ locks' = [locks EXCEPT !.threads[t].in_call = FALSE, !.threads[t].pos = @ + 1]
  /\ UNCHANGED <<shared, canceller, orch>>
  /\ UNCHANGED <<retry, uploaders, ok_calls, clears, submissions, form, output_clears>>

NextLocks ==
  \/ \E t \in LockThreads : Acquire(t)
  \/ \E t \in LockThreads : Release(t)
  \/ \E t \in LockThreads : CallBegin(t)
  \/ \E t \in LockThreads : CallEnd(t)

SpecLocks == InitLocks /\ [][NextLocks]_vars

\* C18: a thread in a network call holds none of the five locks, no thread
\* holds two locks at once, and the threads never all wait for a lock.
C18_LockDiscipline ==
  /\ \A t \in LockThreads : locks.threads[t].in_call => locks.threads[t].held = <<>>
  /\ \A t \in LockThreads : Len(locks.threads[t].held) <= 1
  /\ (\E t \in LockThreads : ~ThreadDone(t))
       => \E t \in LockThreads : ~ThreadDone(t) /\ ~Blocked(t)

\* A worker is in its Asset Store call while the run holds task_groups_lock
\* and the status poll waits for it.
W_C18 ==
  /\ locks.threads["upload"].in_call
  /\ locks.owner["task_groups_lock"] = "run"
  /\ Blocked("status")
  /\ Blocked("cancel_all")

\* =========================================================================
\* SpecPlan: the planning functions applied to a form by the task estimate,
\* and get_api_key_for_task applied to a task ordinal and a key list
\* =========================================================================
\* Pages of the form that can hold images, and images per page.
PlanPages == 3

MaxPageImages == 2

\* Keys of a key list, and task ordinals.
MaxKeys == 3

MaxOrdinal == 7

\* Mutation: the ordinals are taken to start at 0.
get_api_key_from_zero(task_id, all_keys) ==
  IF all_keys = <<>> THEN "ValueError"
  ELSE all_keys[(task_id % Len(all_keys)) + 1]

\* Lines 63-68 (and src/batch_banana_concurrent_v2.py, lines 73-89):
\* key_index = (task_id - 1) % len(all_keys) on a list indexed from 0.
get_api_key_for_task(task_id, all_keys) ==
  IF all_keys = <<>> THEN "ValueError"
  ELSE all_keys[((task_id - 1) % Len(all_keys)) + 1]

\* Mutation: every stage takes the initial combinations as its inputs.
RECURSIVE StageCountsFromInitial(_, _, _)
StageCountsFromInitial(stage_plan, s, current_inputs) ==
  IF s > Len(stage_plan) THEN <<>>
  ELSE <<[input_count |-> current_inputs,
          task_count |-> current_inputs * Len(stage_plan[s].suffixes)]>>
         \o StageCountsFromInitial(stage_plan, s + 1, current_inputs)

\* The loop of compute_pipeline_statistics from stage s on: input_count and
\* task_count of every stage.
RECURSIVE StageCounts(_, _, _)
StageCounts(stage_plan, s, current_inputs) ==
  IF s > Len(stage_plan) THEN <<>>
  ELSE LET stage_tasks == current_inputs * Len(stage_plan[s].suffixes)
       IN <<[input_count |-> current_inputs, task_count |-> stage_tasks]>>
            \o StageCounts(stage_plan, s + 1,
                 IF stage_tasks > 0 THEN stage_tasks ELSE current_inputs)

\* The inputs: a form of three prompt boxes and PlanPages pages (the mode of
\* an empty page is never read: it is fixed), or a key list.
PlanForms ==
  {[pc |-> "filled",
    raw_prompt_groups |-> raw_prompt_groups,
    pages_data |-> pages_data,
    stage_plan |-> <<>>, stage_counts |-> <<>>, total_tasks |-> 0,
    message |-> "none"] :
     raw_prompt_groups \in {f.raw_prompt_groups : f \in Forms},
     pages_data \in
       {d \in
          {[p \in 1..PlanPages |->
              [images |-> [i \in 1..m[p] |-> Source(10 * p + i)], mode |-> pm[p]]] :
             m \in [1..PlanPages -> 0..MaxPageImages],
             pm \in [1..PlanPages -> Modes]} :
          \A p \in 1..PlanPages : d[p].images = <<>> => d[p].mode = "multiply"}}
    \cup {[pc |-> "keys", all_api_keys |-> [i \in 1..n |-> <<"key", i>>],
            task_id |-> 0, assigned_key |-> "none"] : n \in 0..MaxKeys}

InitPlan ==
  /\ InitShared
  /\ task_group_cancel_flags = EmptyMap
  /\ InitOrch({NoRun}, "unsubmitted")
  /\ form \in PlanForms
  /\ locks = NoLocks
  /\ output_clears = NoClears
  /\ retry = NoRetry
  /\ uploaders = EmptyMap
  /\ ok_calls = EmptyMap
  /\ clears = 0
  /\ submissions = EmptyMap

\* calculate_task_estimate (lines 1922-1982): the combinations, the prompt
\* groups, the plan and the statistics of the form, or the message of the
\* first of them that fails.
Estimate ==
  /\ form.pc = "filled"
  /\ LET combinations == calculate_image_combinations(form.pages_data)
         stage_plan == build_pipeline_plan(ParsedGroups(form.raw_prompt_groups))
     IN form' =
          IF combinations = <<>>
          THEN [form EXCEPT !.pc = "estimated", !.message = "no_images"]
          ELSE IF ParseError(form.raw_prompt_groups)
          THEN [form EXCEPT !.pc = "estimated", !.message = "bad_prompt_groups"]
          ELSE IF stage_plan = <<>>
          THEN [form EXCEPT !.pc = "estimated", !.message = "no_plan"]
          ELSE [form EXCEPT
                  !.pc = "estimated",
                  !.stage_plan = stage_plan,
                  !.stage_counts = StageCounts(stage_plan, 1, Len(combinations)),
                  !.total_tasks =
                     compute_pipeline_statistics(Len(combinations), stage_plan)]
  /\ UNCHANGED <<shared, canceller, orch>>
  /\ UNCHANGED <<retry, uploaders, ok_calls, clears, submissions, locks, output_clears>>

\* assigned_key = get_api_key_for_task(idx, all_api_keys), lines 788 and 882.
AssignKey(task_id) ==
  /\ form.pc = "keys"
  /\ form' = [form EXCEPT
                !.pc = "assigned",
                !.task_id = task_id,
                !.assigned_key = get_api_key_for_task(task_id, form.all_api_keys)]
  /\ UNCHANGED <<shared, canceller, orch>>
  /\ UNCHANGED <<retry, uploaders, ok_calls, clears, submissions, locks, output_clears>>

NextPlan ==
  \/ Estimate
  \/ \E task_id \in 1..MaxOrdinal : AssignKey(task_id)

SpecPlan == InitPlan /\ [][NextPlan]_vars

\* C24: for a key list that is not empty the key assigned to an ordinal is
\* the key at the position that differs from the ordinal by a multiple of
\* the length of the list, and it is the key of the ordinal one length
\* later; for an empty list the function raises and returns no key.
C24_KeyRotation ==
  form.pc = "assigned"
    => LET keys == form.all_api_keys
           n == Len(keys)
       IN IF n = 0 THEN form.assigned_key = "ValueError"
          ELSE /\ \E k \in 1..n, q \in 0..MaxOrdinal :
                    /\ form.task_id = q * n + k
                    /\ form.assigned_key = keys[k]
               /\ get_api_key_for_task(form.task_id + n, keys) = form.assigned_key

\* An ordinal beyond the length of a list of several keys was assigned a key.
W_C24 ==
  /\ form.pc = "assigned"
  /\ Len(form.all_api_keys) >= 2
  /\ form.task_id > Len(form.all_api_keys)
  /\ form.assigned_key = form.all_api_keys[1]

\* The product of the sizes of the non-empty pages from page p on.
RECURSIVE SizeProduct(_, _)
SizeProduct(pages_data, p) ==
  IF p > Len(pages_data) THEN 1
  ELSE (IF pages_data[p].images = <<>> THEN 1 ELSE Len(pages_data[p].images))
         * SizeProduct(pages_data, p + 1)

\* The pages without page p.
WithoutPage(pages_data, p) ==
  [i \in 1..(Len(pages_data) - 1) |->
     IF i < p THEN pages_data[i] ELSE pages_data[i + 1]]

\* C25: when every page that has images is in multiply mode the number of
\* combinations is the product of the sizes of these pages; when every such
\* page is in add mode there is one combination, the images of all pages in
\* the order of the pages; dropping a page without images leaves the result
\* as it is; and the result is empty exactly when no page has images, which
\* the estimate reports.
C25_Combinations ==
  form.pc \in {"filled", "estimated"}
    => LET pages_data == form.pages_data
           filled == {p \in 1..Len(pages_data) : pages_data[p].images # <<>>}
           combinations == calculate_image_combinations(pages_data)
       IN /\ (filled # {} /\ \A p \in filled : pages_data[p].mode = "multiply")
               => Len(combinations) = SizeProduct(pages_data, 1)
          /\ (filled # {} /\ \A p \in filled : pages_data[p].mode = "add")
               => combinations
                    = << Flatten([p \in 1..Len(pages_data) |-> pages_data[p].images]) >>
          /\ \A p \in 1..Len(pages_data) :
               pages_data[p].images = <<>>
                 => calculate_image_combinations(WithoutPage(pages_data, p)) = combinations
          /\ (filled = {}) <=> (combinations = <<>>)
          /\ form.pc = "estimated"
               => ((form.message = "no_images") <=> (filled = {}))

\* The estimate of a form with an empty page between two multiply pages of
\* two images each: four combinations.
W_C25 ==
  /\ form.pc = "estimated"
  /\ form.pages_data[2].images = <<>>
  /\ Len(form.pages_data[1].images) = 2
  /\ Len(form.pages_data[3].images) = 2
  /\ form.pages_data[1].mode = "multiply"
  /\ form.pages_data[3].mode = "multiply"
  /\ Len(calculate_image_combinations(form.pages_data)) = 4
  /\ form.message # "no_images"

\* C27: the stages of the plan, in their order, are the prompt groups in
\* their order, every group in one stage; a stage that has an inheriting
\* group has no other group; two stages that follow each other are not both
\* made of non-inheriting groups; and the stage indices are 1..n.
C27_PlanPartitionsGroups ==
  (form.pc = "estimated" /\ form.stage_plan # <<>>)
    => LET stage_plan == form.stage_plan
           Inheriting(s) ==
             \E g \in 1..Len(stage_plan[s].groups) : stage_plan[s].groups[g].inherit
       IN /\ Flatten([s \in 1..Len(stage_plan) |-> stage_plan[s].groups])
               = ParsedGroups(form.raw_prompt_groups)
          /\ \A s \in 1..Len(stage_plan) :
               /\ stage_plan[s].stage_index = s
               /\ stage_plan[s].groups # <<>>
               /\ Inheriting(s) => Len(stage_plan[s].groups) = 1
          /\ \A s \in 1..(Len(stage_plan) - 1) : Inheriting(s) \/ Inheriting(s + 1)

\* Two non-inheriting groups are the first stage and the inheriting third
\* group is the second.
W_C27 ==
  /\ form.pc = "estimated"
  /\ Len(form.stage_plan) = 2
  /\ Len(form.stage_plan[1].groups) = 2
  /\ form.stage_plan[2].groups[1].inherit

\* C28: a stage of the plan has replace_prompt exactly when one of its
\* groups inherits and all of its groups are in multiply mode.
C28_ReplacePrompt ==
  (form.pc = "estimated" /\ form.stage_plan # <<>>)
    => \A s \in 1..Len(form.stage_plan) :
         LET groups == form.stage_plan[s].groups
         IN form.stage_plan[s].replace_prompt
              <=> /\ \E g \in 1..Len(groups) : groups[g].inherit
                  /\ \A g \in 1..Len(groups) : groups[g].mode = "multiply"

\* A plan of three stages: the second inherits in multiply mode and
\* replaces the prompt, the third inherits in add mode and does not.
W_C28 ==
  /\ form.pc = "estimated"
  /\ Len(form.stage_plan) = 3
  /\ ~form.stage_plan[1].replace_prompt
  /\ form.stage_plan[2].replace_prompt
  /\ form.stage_plan[3].groups[1].inherit
  /\ form.stage_plan[3].groups[1].mode = "add"
  /\ ~form.stage_plan[3].replace_prompt

\* C29: parse_prompt_groups raises when the first prompt box inherits,
\* whatever its text and mode and whatever the other boxes hold, and when
\* any box inherits without a non-empty line; when it does not raise, the
\* groups it returns are the boxes that have a non-empty line, in their
\* order; and the estimate of a form that has images reports the error.
C29_FirstGroupCannotInherit ==
  form.pc \in {"filled", "estimated"}
    => LET raw_groups == form.raw_prompt_groups
           Empty(g) == \A k \in 1..Len(raw_groups[g].text) :
                         raw_groups[g].text[k] = BlankLine
           parsed == ParsedGroups(raw_groups)
       IN /\ raw_groups[1].inherit => ParseError(raw_groups)
          /\ (\E g \in 1..Len(raw_groups) : raw_groups[g].inherit /\ Empty(g))
               => ParseError(raw_groups)
          /\ ~ParseError(raw_groups)
               => /\ {parsed[i].index : i \in 1..Len(parsed)}
                       = {g \in 1..Len(raw_groups) : ~Empty(g)}
                  /\ \A i \in 1..(Len(parsed) - 1) : parsed[i].index < parsed[i + 1].index
          /\ (form.pc = "estimated" /\ form.message # "no_images"
                /\ raw_groups[1].inherit)
               => form.message = "bad_prompt_groups"

\* The estimate of a form whose first box inherits and has a prompt, and
\* whose second box has a prompt and does not inherit: the error.
W_C29 ==
  /\ form.pc = "estimated"
  /\ form.raw_prompt_groups[1].inherit
  /\ StrippedLines(form.raw_prompt_groups[1].text) # <<>>
  /\ ~form.raw_prompt_groups[2].inherit
  /\ StrippedLines(form.raw_prompt_groups[2].text) # <<>>
  /\ form.message = "bad_prompt_groups"

\* C30: the input count of stage 1 is the number of initial combinations,
\* the input count of a later stage is the task count of the stage before
\* it, the task count of a stage is its input count times the number of its
\* prompts, and the total is the sum of the task counts.
C30_Statistics ==
  (form.pc = "estimated" /\ form.stage_plan # <<>>)
    => LET counts == form.stage_counts
       IN /\ Len(counts) = Len(form.stage_plan)
          /\ counts[1].input_count = Len(calculate_image_combinations(form.pages_data))
          /\ \A s \in 2..Len(counts) : counts[s].input_count = counts[s - 1].task_count
          /\ \A s \in 1..Len(counts) :
               counts[s].task_count
                 = counts[s].input_count * Len(form.stage_plan[s].suffixes)
          /\ form.total_tasks
               = SumOver([s \in 1..Len(counts) |-> counts[s].task_count], 1..Len(counts))

\* Four combinations and two prompts in stage 1, one inherited prompt in
\* stage 2: 8 tasks, then 8 inputs and 8 tasks, 16 in total.
W_C30 ==
  /\ form.pc = "estimated"
  /\ Len(form.stage_counts) = 2
  /\ form.stage_counts[1].input_count = 4
  /\ form.stage_counts[1].task_count = 8
  /\ form.stage_counts[2].input_count = 8
  /\ form.total_tasks = 16

\* =========================================================================
\* SpecRounds: main of src/batch_banana_concurrent_v2.py executing its tasks
\* in a first round and in retry rounds
\* =========================================================================
MaxBatchTasks == 3

\* max_retries = 3 (line 365).
BatchMaxRetries == 3

InitRounds ==
  /\ InitShared
  /\ InitExtras
  /\ IdleOrch
  /\ \E total_tasks \in 1..MaxBatchTasks :
       retry = [pc |-> "round", round |-> 1, total_tasks |-> total_tasks,
                pending |-> 1..total_tasks, local_results |-> <<>>,
                results |-> <<>>, failed_tasks |-> <<>>,
                runs |-> [t \in 1..total_tasks |-> <<>>]]
  /\ uploaders = EmptyMap
  /\ ok_calls = EmptyMap
  /\ clears = 0
  /\ submissions = EmptyMap

\* Lines 341-354 of execute_tasks: a task of the round completes, with
\* success or not, and its result is appended in completion order; runs
\* keeps, for every task, the outcomes of its executions.
ExecuteTask(task_id, success) ==
  /\ retry.pc = "round"
  /\ task_id \in retry.pending
  /\ retry' = [retry EXCEPT
       !.pending = @ \ {task_id},
       !.local_results = Append(@, [task_id |-> task_id, success |-> success]),
       !.runs[task_id] = Append(@, success)]
  /\ UNCHANGED <<shared, canceller, orch, uploaders, ok_calls, clears, submissions,
                 form, locks, output_clears>>

\* Lines 359-388: the round has ended; the results of the tasks that had
\* failed are replaced by the results of the round, the failures of the
\* round are retried while retry_round <= max_retries, and line 364 sets
\* retry_round to 2 after the first round.
RoundEnd ==
  /\ retry.pc = "round"
  /\ retry.pending = {}
  /\ LET failed_task_ids == {retry.failed_tasks[k].task_id :
                               k \in 1..Len(retry.failed_tasks)}
         results == SelectSeq(retry.results, LAMBDA r : r.task_id \notin failed_task_ids)
                      \o retry.local_results
         failed_tasks == SelectSeq(retry.local_results, LAMBDA r : ~r.success)
         retry_round == retry.round + 1
     IN retry' =
          IF failed_tasks # <<>> /\ retry_round <= BatchMaxRetries
          THEN [retry EXCEPT
                  !.round = retry_round,
                  !.pending = {failed_tasks[k].task_id : k \in 1..Len(failed_tasks)},
                  !.local_results = <<>>,
                  !.results = results,
                  !.failed_tasks = failed_tasks]
          ELSE [retry EXCEPT
                  !.pc = "reported",
                  !.local_results = <<>>,
                  !.results = results,
                  !.failed_tasks = failed_tasks]
  /\ UNCHANGED <<shared, canceller, orch, uploaders, ok_calls, clears, submissions,
                 form, locks, output_clears>>

NextRounds ==
  \/ \E task_id \in 1..MaxBatchTasks, success \in BOOLEAN : ExecuteTask(task_id, success)
  \/ RoundEnd

SpecRounds == InitRounds /\ [][NextRounds]_vars

\* C39: a task is executed again only after its latest execution failed; a
\* task reported as failed was executed in the first round and in
\* max_retries retry rounds; and the final results hold one result per
\* task, the latest, so that the successes and the failures add up to the
\* number of tasks.
C39_RetryRounds ==
  /\ \A t \in 1..retry.total_tasks :
       \A k \in 1..(Len(retry.runs[t]) - 1) : ~retry.runs[t][k]
  /\ retry.pc = "reported"
       => /\ \A k \in 1..Len(retry.failed_tasks) :
               Len(retry.runs[retry.failed_tasks[k].task_id]) = 1 + BatchMaxRetries
          /\ Len(retry.results) = retry.total_tasks
          /\ \A t \in 1..retry.total_tasks :
               \E k \in 1..Len(retry.results) :
                 /\ retry.results[k].task_id = t
                 /\ retry.results[k].success = retry.runs[t][Len(retry.runs[t])]

====
